---------------------------- MODULE Spec2Model ----------------------------
(***************************************************************************)
(* Model of the DHCP client of the NTP clock (dhcp_client.c) and of the    *)
(* calls the main loop makes into it.                                      *)
(*                                                                         *)
(* The engine's statics are the fields of the record held by the variable  *)
(* dhcp.  32-bit quantities (dhcp_cnt_down, dhcp_opt_leasetime) are kept   *)
(* as four bytes, most significant first, with the arithmetic the code     *)
(* does on them (decrement with wrap, division by a uint8_t, shift-or).    *)
(* An inbound frame is a record of the header bytes the client looks at    *)
(* and of the bytes of the buffer from the options offset on; an outbound  *)
(* frame is a record of the bytes the client writes.                       *)
(***************************************************************************)
EXTENDS Integers, Sequences, FiniteSets, TLC

VARIABLES
    dhcp,       \* the statics of dhcp_client.c
    broadcast,  \* ENC28J60 broadcast reception enabled
    linkup,     \* enc28j60linkup()
    call,       \* the last call into the client: operation, input, result, frames sent
    expiries,   \* countdown expirations handled in the present lease state
    scenario,   \* steps of the acquisition scenario completed so far
    rd,         \* the poll loop's read of the countdown, byte by byte
    orch,       \* the statics and locals of main() that steer the bring-up sequence
    ntp         \* the origin port of the time requests and the answers still on their way

\* the variables the calls into the client leave alone
aux == <<rd, orch, ntp>>

vars == <<dhcp, broadcast, linkup, call, expiries, scenario, rd, orch, ntp>>

(***************************************************************************)
(* Bounds of the model                                                     *)
(***************************************************************************)
\* transaction ids explored: at most this many increments past a seed
MaxTidSteps == 4
\* single ticks are followed from this countdown value down; above it the
\* ticks up to it are taken in one step
TickHorizon == 1
\* link changes and accepted configuration POSTs in a run of the bring-up
\* sequence
MaxDisturbances == 1

(***************************************************************************)
(* Program constants                                                       *)
(***************************************************************************)
\* net.h: offset of the UDP payload in the frame (14 Ethernet + 20 IP + 8 UDP)
UDP_DATA_P == 42
DHCP_OPTION_OFFSET == 240
DHCP_SRV_SRC_PORT == 67
DHCP_DISCOVER_V == 1
DHCP_REQUEST_V == 3
\* lease states, dhcp_state
ST_INIT == 0
ST_SELECTING == 1
ST_REQUESTING == 2
ST_BOUND == 3
ST_REBINDING == 4

\* first buffer index of the options trailer
OPT0 == UDP_DATA_P + DHCP_OPTION_OFFSET

param_req_lst_end_of_opt == <<55, 3, 1, 3, 6, 255, 0>>

(***************************************************************************)
(* uint32_t as four bytes, most significant first                          *)
(***************************************************************************)
U32(n) == <<(n \div 16777216) % 256, (n \div 65536) % 256, (n \div 256) % 256, n % 256>>

U32_MAX == <<255, 255, 255, 255>>

U32_ZERO == <<0, 0, 0, 0>>

\* x-- on a uint32_t: wraps from 0 to 0xffffffff
U32Dec(c) ==
    IF c[4] > 0 THEN <<c[1], c[2], c[3], c[4] - 1>>
    ELSE IF c[3] > 0 THEN <<c[1], c[2], c[3] - 1, 255>>
    ELSE IF c[2] > 0 THEN <<c[1], c[2] - 1, 255, 255>>
    ELSE IF c[1] > 0 THEN <<c[1] - 1, 255, 255, 255>>
    ELSE U32_MAX

\* x / d for a uint32_t x and a uint8_t d > 0: long division, byte by byte
U32Div(c, d) ==
    LET r1 == c[1] % d
        n2 == r1 * 256 + c[2]
        r2 == n2 % d
        n3 == r2 * 256 + c[3]
        r3 == n3 % d
        n4 == r3 * 256 + c[4]
    IN  <<c[1] \div d, n2 \div d, n3 \div d, n4 \div d>>

\* (x << 8) | b on a uint32_t
U32ShlOr(c, b) == <<c[2], c[3], c[4], b>>

\* x < y, unsigned
U32Lt(x, y) ==
    \/ x[1] < y[1]
    \/ x[1] = y[1] /\ x[2] < y[2]
    \/ x[1] = y[1] /\ x[2] = y[2] /\ x[3] < y[3]
    \/ x[1] = y[1] /\ x[2] = y[2] /\ x[3] = y[3] /\ x[4] < y[4]


(***************************************************************************)
(* Frames.  An inbound frame: plen as enc28j60PacketReceive returns it,    *)
(* srcport = buf[UDP_SRC_PORT_L_P], op = buf[UDP_DATA_P], xid =            *)
(* buf[UDP_DATA_P+4..+7], yiaddr = buf[UDP_DATA_P+16..+19] and opts = the  *)
(* buffer from index OPT0 on (it may hold bytes past plen: what an         *)
(* earlier, longer frame left there); the buffer is zero behind opts.      *)
(***************************************************************************)
BufByte(pkt, idx) ==
    IF idx >= OPT0 /\ idx - OPT0 < Len(pkt.opts) THEN pkt.opts[idx - OPT0 + 1] ELSE 0

BufBytes4(pkt, idx) ==
    <<BufByte(pkt, idx), BufByte(pkt, idx + 1), BufByte(pkt, idx + 2), BufByte(pkt, idx + 3)>>

\* the loop of enc28j60PacketReceive found nothing: plen = 0
NoPacket ==
    [plen |-> 0, srcport |-> 0, op |-> 0, xid |-> <<0, 0, 0, 0>>,
     yiaddr |-> <<0, 0, 0, 0>>, opts |-> <<>>]

(***************************************************************************)
(* dhcp_get_message_type: the value of option 53, 0 if the walk ends       *)
(* before one is found                                                     *)
(***************************************************************************)
RECURSIVE MessageTypeWalk(_, _)
MessageTypeWalk(pkt, option_idx) ==
    IF ~(option_idx + 2 < pkt.plen) THEN 0
    ELSE LET option_len == BufByte(pkt, option_idx + 1) IN
         IF option_len < 1 \/ option_idx + option_len + 1 > pkt.plen THEN 0
         ELSE IF BufByte(pkt, option_idx) = 53 THEN BufByte(pkt, option_idx + 2)
         ELSE MessageTypeWalk(pkt, option_idx + 2 + option_len)

dhcp_get_message_type(pkt) ==
    IF pkt.plen < OPT0 + 3 THEN 0 ELSE MessageTypeWalk(pkt, OPT0)

(***************************************************************************)
(* is_dhcp_msg_for_me: length, server port, boot reply, the four bytes of  *)
(* the transaction id; an accepted frame with yiaddr[0] != 0 updates       *)
(* dhcp_yiaddr.  The result is the statics after the call and the return   *)
(* value.                                                                  *)
(***************************************************************************)
\* mutant: only the first byte of the transaction id is compared
TidMatches_FirstByteOnly(e, pkt) == pkt.xid[1] = e.dhcp_tid

TidMatches(e, pkt) == \A i \in 1..4 : pkt.xid[i] = e.dhcp_tid

\* mutant: the length of the frame is not checked
is_dhcp_msg_for_me_NoLengthCheck(e, pkt) ==
    IF pkt.srcport # DHCP_SRV_SRC_PORT THEN [dhcp |-> e, ret |-> 0]
    ELSE IF pkt.op # 2 THEN [dhcp |-> e, ret |-> 0]
    ELSE IF ~TidMatches(e, pkt) THEN [dhcp |-> e, ret |-> 0]
    ELSE IF pkt.yiaddr[1] # 0 THEN [dhcp |-> [e EXCEPT !.dhcp_yiaddr = pkt.yiaddr], ret |-> 1]
    ELSE [dhcp |-> e, ret |-> 1]

is_dhcp_msg_for_me(e, pkt) ==
    IF pkt.plen < OPT0 + 3 THEN [dhcp |-> e, ret |-> 0]
    ELSE IF pkt.srcport # DHCP_SRV_SRC_PORT THEN [dhcp |-> e, ret |-> 0]
    ELSE IF pkt.op # 2 THEN [dhcp |-> e, ret |-> 0]
    ELSE IF ~TidMatches(e, pkt) THEN [dhcp |-> e, ret |-> 0]
    ELSE IF pkt.yiaddr[1] # 0 THEN [dhcp |-> [e EXCEPT !.dhcp_yiaddr = pkt.yiaddr], ret |-> 1]
    ELSE [dhcp |-> e, ret |-> 1]

(***************************************************************************)
(* dhcp_option_parser: one walk over the trailer; each case of the switch  *)
(***************************************************************************)
ParseOption(e, pkt, option_idx, option_len) ==
    LET code == BufByte(pkt, option_idx)
        val4 == BufBytes4(pkt, option_idx + 2)
    IN  CASE code = 1 /\ option_len = 4 -> [e EXCEPT !.dhcp_opt_mask = val4]
          [] code = 3 /\ option_len = 4 -> [e EXCEPT !.dhcp_opt_defaultgw = val4]
          [] code = 6 -> [e EXCEPT !.dhcp_opt_dns = val4]
          [] code = 51 /\ option_len = 4 ->
                [e EXCEPT !.dhcp_opt_leasetime =
                    U32ShlOr(U32ShlOr(U32ShlOr(U32ShlOr(@, val4[1]), val4[2]), val4[3]), val4[4])]
          [] code = 53 -> [e EXCEPT !.dhcp_opt_message_type = BufByte(pkt, option_idx + 2)]
          [] code = 54 /\ option_len = 4 -> [e EXCEPT !.dhcp_opt_server_id = val4]
          [] OTHER -> e

RECURSIVE OptionWalk(_, _, _)
OptionWalk(e, pkt, option_idx) ==
    IF ~(option_idx + 2 < pkt.plen) THEN e
    ELSE LET option_len == BufByte(pkt, option_idx + 1) IN
         IF option_len < 1 \/ option_idx + option_len + 1 > pkt.plen THEN e
         ELSE IF BufByte(pkt, option_idx) = 0 THEN e   \* option_idx = plen ends the loop
         ELSE OptionWalk(ParseOption(e, pkt, option_idx, option_len), pkt,
                         option_idx + 2 + option_len)

dhcp_option_parser(e, pkt) ==
    IF pkt.plen < OPT0 + 3 THEN e ELSE OptionWalk(e, pkt, OPT0)

(***************************************************************************)
(* Outbound frames.  make_dhcp_message_template writes the boot request    *)
(* header with dhcp_tid in all four bytes of the transaction id, source    *)
(* address 0.0.0.0 and ciaddr zero; the senders add the options trailer    *)
(* and the UDP payload length handed to send_udp_transmit.                 *)
(***************************************************************************)
make_dhcp_message_template(e) ==
    [op |-> 1, htype |-> 1, hlen |-> 6, hops |-> 0,
     xid |-> <<e.dhcp_tid, e.dhcp_tid, e.dhcp_tid, e.dhcp_tid>>,
     ipsrc |-> <<0, 0, 0, 0>>, ciaddr |-> <<0, 0, 0, 0>>,
     opts |-> <<>>, datalen |-> 0]

make_dhcp_opt_ip(opt, src) ==
    IF src[1] # 0 THEN <<opt, 4>> \o src ELSE <<>>

\* mutant: the length handed to send_udp_transmit ends inside the parameter
\* request list
send_dhcp_discover_ShortLength(e) ==
    [make_dhcp_message_template(e) EXCEPT
        !.opts = <<53, 1, DHCP_DISCOVER_V>> \o param_req_lst_end_of_opt,
        !.datalen = DHCP_OPTION_OFFSET + 6]

send_dhcp_discover(e) ==
    [make_dhcp_message_template(e) EXCEPT
        !.opts = <<53, 1, DHCP_DISCOVER_V>> \o param_req_lst_end_of_opt,
        !.datalen = DHCP_OPTION_OFFSET + 9]

\* mutant: the request carries no requested-address option
send_dhcp_request_NoRequestedIp(e) ==
    LET ips == make_dhcp_opt_ip(54, e.dhcp_opt_server_id)
        i == 3 + Len(ips)
    IN  [make_dhcp_message_template(e) EXCEPT
            !.opts = <<53, 1, DHCP_REQUEST_V>> \o ips \o param_req_lst_end_of_opt,
            !.datalen = DHCP_OPTION_OFFSET + i + 6]

send_dhcp_request(e) ==
    LET ips == make_dhcp_opt_ip(54, e.dhcp_opt_server_id)
                 \o make_dhcp_opt_ip(50, e.dhcp_yiaddr)
        i == 3 + Len(ips)
    IN  [make_dhcp_message_template(e) EXCEPT
            !.opts = <<53, 1, DHCP_REQUEST_V>> \o ips \o param_req_lst_end_of_opt,
            !.datalen = DHCP_OPTION_OFFSET + i + 6]

send_dhcp_renew_request(e) ==
    [make_dhcp_message_template(e) EXCEPT
        !.ipsrc = e.dhcp_yiaddr,
        !.ciaddr = e.dhcp_yiaddr,
        !.opts = <<53, 1, DHCP_REQUEST_V>>,
        !.datalen = DHCP_OPTION_OFFSET + 3]

(***************************************************************************)
(* Timers                                                                  *)
(***************************************************************************)
\* mutant: the decrement is not guarded
dhcp_tick_Unguarded(c) == U32Dec(c)

\* dhcp_tick, on the countdown
dhcp_tick(c) == IF c # U32_MAX THEN U32Dec(c) ELSE c

\* mutant: the countdown always reads as expired
is_dhcp_cnt_down_zero_Always(e) == TRUE

is_dhcp_cnt_down_zero(e) == e.dhcp_cnt_down = U32_ZERO

\* mutant: the divisor is ignored, the countdown is always half the lease
set_dhcp_renew_timer_Half(e, divisor) ==
    LET e1 == [e EXCEPT !.dhcp_cnt_down = U32Div(e.dhcp_opt_leasetime, 2)]
    IN  IF is_dhcp_cnt_down_zero(e1) THEN [e1 EXCEPT !.dhcp_state = ST_INIT] ELSE e1

set_dhcp_renew_timer(e, divisor) ==
    LET e1 == [e EXCEPT !.dhcp_cnt_down = U32Div(e.dhcp_opt_leasetime, divisor)]
    IN  IF is_dhcp_cnt_down_zero(e1) THEN [e1 EXCEPT !.dhcp_state = ST_INIT] ELSE e1

\* mutant: every retry waits the first interval
set_dhcp_retry_timer_Fixed(e) == [e EXCEPT !.dhcp_cnt_down = U32(4)]

set_dhcp_retry_timer(e) == [e EXCEPT !.dhcp_cnt_down = U32(e.dhcp_retry)]

init_dhcp(e, initial_tid) == [e EXCEPT !.dhcp_state = ST_INIT, !.dhcp_tid = initial_tid]

(***************************************************************************)
(* The two entry points of the packet loop.  Each gives the statics and    *)
(* the broadcast switch after the call, the frames sent and the return     *)
(* value.                                                                  *)
(***************************************************************************)
Out(e, bc, tx, ret) == [dhcp |-> e, broadcast |-> bc, tx |-> tx, ret |-> ret]

\* the give-up limit of the exponential back-off (dhcp_retry > 32)
RetryLimit == 32

\* mutant: gives up as soon as the interval reaches the limit
RetryExpired_GiveUpAtLimit(e, bc) ==
    LET e1 == [e EXCEPT !.dhcp_tid = (@ + 1) % 256, !.dhcp_retry = (@ * 2) % 256]
    IN  IF e1.dhcp_retry >= RetryLimit
        THEN Out([e1 EXCEPT !.dhcp_state = ST_INIT], bc, <<>>, 0)
        ELSE LET e2 == set_dhcp_retry_timer(e1)
             IN  IF e2.dhcp_state = ST_SELECTING
                 THEN Out(e2, bc, <<send_dhcp_discover(e2)>>, 0)
                 ELSE Out(e2, bc, <<send_dhcp_request(e2)>>, 0)

\* mutant: the retry is sent under the id of the message it replaces
RetryExpired_SameTid(e, bc) ==
    LET e1 == [e EXCEPT !.dhcp_retry = (@ * 2) % 256]
    IN  IF e1.dhcp_retry > RetryLimit
        THEN Out([e1 EXCEPT !.dhcp_state = ST_INIT], bc, <<>>, 0)
        ELSE LET e2 == set_dhcp_retry_timer(e1)
             IN  IF e2.dhcp_state = ST_SELECTING
                 THEN Out(e2, bc, <<send_dhcp_discover(e2)>>, 0)
                 ELSE Out(e2, bc, <<send_dhcp_request(e2)>>, 0)

\* plen == 0 in SELECTING or REQUESTING with the countdown at zero
RetryExpired(e, bc) ==
    LET e1 == [e EXCEPT !.dhcp_tid = (@ + 1) % 256, !.dhcp_retry = (@ * 2) % 256]
    IN  IF e1.dhcp_retry > RetryLimit
        THEN Out([e1 EXCEPT !.dhcp_state = ST_INIT], bc, <<>>, 0)
        ELSE LET e2 == set_dhcp_retry_timer(e1)
             IN  IF e2.dhcp_state = ST_SELECTING
                 THEN Out(e2, bc, <<send_dhcp_discover(e2)>>, 0)
                 ELSE Out(e2, bc, <<send_dhcp_request(e2)>>, 0)

\* plen > 0 and is_dhcp_msg_for_me, in INIT, SELECTING or REQUESTING
InitialReply(e, bc, pkt) ==
    LET cmd == dhcp_get_message_type(pkt)
    IN  IF cmd = 2
        THEN LET e1 == set_dhcp_retry_timer([e EXCEPT !.dhcp_state = ST_REQUESTING,
                                                      !.dhcp_retry = 4])
                 e2 == dhcp_option_parser(e1, pkt)
             IN  Out(e2, bc, <<send_dhcp_request(e2)>>, 0)
        ELSE IF cmd = 5
        THEN Out(set_dhcp_renew_timer([e EXCEPT !.dhcp_state = ST_BOUND, !.dhcp_retry = 0], 2),
                 FALSE, <<>>, 1)
        ELSE IF cmd = 6
        THEN Out([e EXCEPT !.dhcp_state = ST_INIT], bc, <<>>, 0)
        ELSE Out(e, bc, <<>>, 0)

packetloop_dhcp_initial_ip_assignment(e, bc, link, pkt) ==
    IF ~link THEN Out(e, bc, <<>>, 0)
    ELSE IF e.dhcp_state > 2 THEN Out(e, bc, <<>>, 0)
    ELSE IF pkt.plen = 0
    THEN IF e.dhcp_state = ST_INIT
         THEN LET e1 == set_dhcp_retry_timer([e EXCEPT !.dhcp_state = ST_SELECTING,
                                                       !.dhcp_retry = 4])
              IN  Out(e1, TRUE, <<send_dhcp_discover(e1)>>, 0)
         ELSE IF e.dhcp_state # 0 /\ is_dhcp_cnt_down_zero(e)
         THEN RetryExpired(e, bc)
         ELSE Out(e, bc, <<>>, 0)
    ELSE LET m == is_dhcp_msg_for_me(e, pkt)
         IN  IF m.ret # 0 THEN InitialReply(m.dhcp, bc, pkt) ELSE Out(m.dhcp, bc, <<>>, 0)

\* the renewal budget: ++dhcp_retry > 3 reinitializes
RenewLimit == 3

\* plen == 0 in BOUND or REBINDING with the countdown at zero and the link up
RenewExpired(e) ==
    LET e1 == [e EXCEPT !.dhcp_tid = (@ + 1) % 256, !.dhcp_state = ST_REBINDING]
        tx == <<send_dhcp_renew_request(e1)>>
        e2 == set_dhcp_renew_timer(e1, 8)
        e3 == [e2 EXCEPT !.dhcp_retry = (@ + 1) % 256]
    IN  IF e3.dhcp_retry > RenewLimit
        THEN Out([e3 EXCEPT !.dhcp_state = ST_INIT], TRUE, tx, 0)
        ELSE Out(e3, TRUE, tx, 0)

\* is_dhcp_msg_for_me in BOUND or REBINDING
RenewReply(e, bc, pkt) ==
    LET cmd == dhcp_get_message_type(pkt)
    IN  IF cmd = 5
        THEN LET e1 == [e EXCEPT !.dhcp_state = ST_BOUND, !.dhcp_retry = 0]
                 e2 == dhcp_option_parser(e1, pkt)
             IN  Out(set_dhcp_renew_timer(e2, 2), FALSE, <<>>, 0)
        ELSE IF cmd = 6
        THEN Out([e EXCEPT !.dhcp_state = ST_INIT], bc, <<>>, 0)
        ELSE Out(e, bc, <<>>, 0)

\* mutant: a processed reply is handed on with its length
packetloop_dhcp_renewhandler_HandsOn(e, bc, link, pkt) ==
    IF e.dhcp_state < 3 THEN Out(e, bc, <<>>, pkt.plen)
    ELSE IF pkt.plen = 0 /\ is_dhcp_cnt_down_zero(e)
    THEN IF ~link THEN Out(e, bc, <<>>, pkt.plen) ELSE RenewExpired(e)
    ELSE LET m == is_dhcp_msg_for_me(e, pkt)
         IN  IF m.ret # 0 THEN [RenewReply(m.dhcp, bc, pkt) EXCEPT !.ret = pkt.plen]
             ELSE Out(m.dhcp, bc, <<>>, pkt.plen)

packetloop_dhcp_renewhandler(e, bc, link, pkt) ==
    IF e.dhcp_state < 3 THEN Out(e, bc, <<>>, pkt.plen)
    ELSE IF pkt.plen = 0 /\ is_dhcp_cnt_down_zero(e)
    THEN IF ~link THEN Out(e, bc, <<>>, pkt.plen) ELSE RenewExpired(e)
    ELSE LET m == is_dhcp_msg_for_me(e, pkt)
         IN  IF m.ret # 0 THEN RenewReply(m.dhcp, bc, pkt) ELSE Out(m.dhcp, bc, <<>>, pkt.plen)

\* dhcp_get_my_ip and dhcp_get_info with no argument NULL
dhcp_get_my_ip(e) ==
    [yiaddr |-> e.dhcp_yiaddr, netmask |-> e.dhcp_opt_mask,
     gw |-> e.dhcp_opt_defaultgw, dns |-> e.dhcp_opt_dns]

dhcp_get_info(e) ==
    [server_id |-> e.dhcp_opt_server_id, leasetime |-> e.dhcp_opt_leasetime,
     state |-> e.dhcp_state]

(***************************************************************************)
(* The frames the network may deliver.  t is the transaction id the        *)
(* client has outstanding when the frame arrives.                          *)
(***************************************************************************)
IP_A == <<192, 0, 2, 50>>
IP_B == <<192, 0, 2, 77>>
MASK_A == <<255, 255, 255, 0>>
MASK_B == <<255, 255, 0, 0>>
GW_A == <<192, 0, 2, 1>>
DNS_A == <<192, 0, 2, 53>>
SID_A == <<192, 0, 2, 2>>

\* lease durations a server may grant, in seconds
Leases == {U32(1), U32(3600)}

\* values init_dhcp is called with (mymac[5] in main)
Seeds == {7}

Opt(code, val) == <<code, Len(val)>> \o val

\* s followed by zero bytes up to length n
Pad(s, n) == s \o [i \in 1..(n - Len(s)) |-> 0]

OptsFull(type, lease) ==
    Opt(53, <<type>>) \o Opt(54, SID_A) \o Opt(51, lease) \o Opt(1, MASK_A)
        \o Opt(3, GW_A) \o Opt(6, DNS_A) \o <<255>>

\* the smallest trailer the client looks at: the message kind alone
OptsType(type) == Opt(53, <<type>>)

\* the length of the trailers but the smallest
TrailerLen == Len(OptsFull(5, U32_ZERO))

\* a well-formed message kind and mask, then an option of length zero
OptsZeroLen(type) ==
    Pad(Opt(53, <<type>>) \o Opt(1, MASK_B) \o <<54, 0>> \o SID_A \o <<255>>, TrailerLen)

\* a well-formed message kind, mask and host name, then a lease option that
\* the end of the frame cuts
OptsOverrun(type) ==
    Opt(53, <<type>>) \o Opt(1, MASK_B) \o Opt(12, Pad(<<>>, TrailerLen - 15))
        \o <<51, 4, 0, 0>>

\* an option of length zero before the message kind
OptsZeroFirst(type) ==
    Pad(<<1, 0>> \o Opt(53, <<type>>) \o Opt(1, MASK_B) \o <<255>>, TrailerLen)

Frame(plen, srcport, op, xid, yiaddr, opts) ==
    [plen |-> plen, srcport |-> srcport, op |-> op, xid |-> xid,
     yiaddr |-> yiaddr, opts |-> opts]

\* a boot reply from the server port whose length is that of its trailer
Reply(xid, yiaddr, opts) == Frame(OPT0 + Len(opts), DHCP_SRV_SRC_PORT, 2, xid, yiaddr, opts)

Xid(t) == <<t, t, t, t>>

WellFormed(t) ==
    {Reply(Xid(t), IP_A, OptsFull(type, lease)) : type \in {2, 5}, lease \in Leases}
        \cup {Reply(Xid(t), IP_A, OptsType(type)) : type \in {5, 6, 7}}
        \cup {Reply(Xid(t), <<0, 0, 0, 0>>, OptsFull(2, U32(3600)))}

\* a reply to the id before the outstanding one, and one whose last id byte differs
Mismatched(t) ==
    {Reply(Xid((t + 255) % 256), IP_B, OptsFull(5, U32(1))),
     Reply(<<t, t, t, (t + 1) % 256>>, IP_B, OptsFull(2, U32(1)))}

Short(t) ==
    {Frame(plen, DHCP_SRV_SRC_PORT, 2, Xid(t), IP_B, OptsFull(5, U32(1))) :
        plen \in {1, OPT0 + 2}}

Foreign(t) ==
    {Frame(OPT0 + Len(OptsFull(5, U32(1))), 68, 2, Xid(t), IP_B, OptsFull(5, U32(1))),
     Frame(OPT0 + Len(OptsFull(5, U32(1))), DHCP_SRV_SRC_PORT, 1, Xid(t), IP_B, OptsFull(5, U32(1)))}

Malformed(t) ==
    {Reply(Xid(t), IP_A, opts) :
        opts \in {OptsZeroLen(5), OptsOverrun(2), OptsOverrun(6), OptsZeroFirst(5)}}

\* a negative acknowledgment as a server sends it, yiaddr zero
Nak(t) == Reply(Xid(t), <<0, 0, 0, 0>>, OptsType(6))

\* correlated replies that name another address: an offer, a negative
\* acknowledgment and a release
OtherAddress(t) ==
    {Reply(Xid(t), IP_B, OptsFull(2, U32(3600)))}
        \cup {Reply(Xid(t), IP_B, OptsType(type)) : type \in {6, 7}}

Packets(t) == WellFormed(t) \cup Mismatched(t) \cup Short(t) \cup Foreign(t) \cup Malformed(t)

\* the acquisition scenario: seed 7, offer and acknowledgment of 192.0.2.50
ScenarioOffer == Reply(Xid(7), IP_A, OptsFull(2, U32(3600)))
ScenarioAck == Reply(Xid(7), IP_A, OptsFull(5, U32(3600)))

(***************************************************************************)
(* State                                                                   *)
(***************************************************************************)
Statics ==
    [dhcp_yiaddr |-> <<0, 0, 0, 0>>, dhcp_opt_defaultgw |-> <<0, 0, 0, 0>>,
     dhcp_opt_mask |-> <<0, 0, 0, 0>>, dhcp_opt_server_id |-> <<0, 0, 0, 0>>,
     dhcp_opt_dns |-> <<8, 8, 8, 8>>, dhcp_opt_message_type |-> 0, dhcp_tid |-> 0,
     dhcp_opt_leasetime |-> U32_MAX, dhcp_cnt_down |-> U32_ZERO, dhcp_retry |-> 0,
     dhcp_state |-> ST_INIT]

\* call: the last call into the client.  op is the entry point, plen the length
\* of the frame handed to it, match whether the frame's transaction id field was
\* the outstanding id (for init_dhcp: whether the seed was), from the lease state when it was called, quiet whether
\* it was a zero-length call made with the countdown not zero, link the status
\* of the link at a quiet call (else FALSE), nexp the countdown expirations handled in that lease state
\* if this call handled one (else 0), ret its return value, tx the frames it
\* sent and loaded the countdown when it returned if it changed the statics
\* (else the empty sequence)
NoCall ==
    [op |-> "none", plen |-> 0, match |-> FALSE, from |-> ST_INIT,
     quiet |-> FALSE, link |-> FALSE, nexp |-> 0, ret |-> 0, tx |-> <<>>, loaded |-> <<>>]

\* rd: pc is where the read stands, got the bytes read so far (-1: not yet),
\* held the values the countdown has held since the read began, ticks the
\* timer interrupts taken, result what the zero test returned
\* orch: init_state .. ntp_retry_count are the variables of main.c of those
\* names; pending is the set of correlation tags with a resolution request
\* outstanding, dns_answer what dnslkup_haveanswer() returns, outside the
\* peers that lie outside the local subnet, conf the active configuration
\* (myip, netmask, gwip, mydns), ntproutingmac and dnsroutingmac the station
\* whose link-layer address each holds.  The rest records what the loop
\* did: ev the events of the last iteration, disturbed the link changes and
\* accepted configuration POSTs so far,
\* and, while init_state is 2, reqs the resolution requests issued since it
\* became 2 (the first three), late whether one of them was issued for a tag
\* that was still outstanding, clean whether no tag was outstanding and no
\* flag set when it became 2
Peers == {"mydns", "ntpip"}

NoConf ==
    [yiaddr |-> <<0, 0, 0, 0>>, netmask |-> <<0, 0, 0, 0>>,
     gw |-> <<0, 0, 0, 0>>, dns |-> <<0, 0, 0, 0>>]

NoMain ==
    [init_state |-> -1, link_status |-> FALSE, delay_sec |-> 0,
     have_ntp_mac |-> FALSE, have_dns_mac |-> FALSE,
     arp_retry_count |-> 0, dns_retry_count |-> 0, dns_state |-> 0,
     haveNTPanswer |-> 0, ntp_retry_count |-> 0,
     pending |-> {}, dns_answer |-> FALSE, outside |-> Peers,
     conf |-> NoConf, ntproutingmac |-> "none", dnsroutingmac |-> "none",
     ev |-> {}, disturbed |-> 0, reqs |-> <<>>, late |-> FALSE, clean |-> FALSE]

\* ntp: ntpclientportL is the variable of main.c of that name; sent whether a
\* time request has been issued, old the origin port of one of the requests
\* issued before the most recent one (-1: none is followed), answered which
\* request the last accepted answer was the reply to
NoNtp == [ntpclientportL |-> 0, sent |-> FALSE, old |-> -1, answered |-> "none"]

NoRead == [pc |-> "idle", got |-> <<-1, -1, -1, -1>>, held |-> {}, ticks |-> 0, result |-> FALSE]

Init ==
    /\ rd = NoRead
    /\ ntp = NoNtp
    /\ orch = NoMain
    /\ dhcp = Statics
    /\ broadcast = FALSE
    /\ linkup \in BOOLEAN
    /\ call = NoCall
    /\ expiries = 0
    /\ scenario = 0

\* transaction ids within MaxTidSteps increments of a seed
InWindow(t) == \E s \in Seeds : (t + 256 - s) % 256 <= MaxTidSteps

\* the call handles an expiry of the countdown
HandlesExpiry(op, pkt) ==
    /\ pkt.plen = 0
    /\ linkup
    /\ dhcp.dhcp_cnt_down = U32_ZERO
    /\ \/ op = "initial" /\ dhcp.dhcp_state \in {ST_SELECTING, ST_REQUESTING}
       \/ op = "renew" /\ dhcp.dhcp_state \in {ST_BOUND, ST_REBINDING}

\* what a call leaves in the variables; r is the entry point's result
RecordCall(op, pkt, r) ==
    LET expired == HandlesExpiry(op, pkt)
    IN  /\ call.op # "none"     \* init_dhcp() must be called before the entry points
        /\ dhcp' = r.dhcp
        /\ broadcast' = r.broadcast
        /\ call' = [op |-> op, plen |-> pkt.plen,
                    match |-> pkt.plen > 0 /\ pkt.xid = Xid(dhcp.dhcp_tid),
                    from |-> dhcp.dhcp_state,
                    quiet |-> pkt.plen = 0 /\ dhcp.dhcp_cnt_down # U32_ZERO,
                    link |-> pkt.plen = 0 /\ dhcp.dhcp_cnt_down # U32_ZERO /\ linkup,
                    nexp |-> IF expired THEN expiries + 1 ELSE 0,
                    ret |-> r.ret, tx |-> r.tx,
                    loaded |-> IF r.dhcp # dhcp THEN r.dhcp.dhcp_cnt_down ELSE <<>>]
        /\ expiries' = IF r.dhcp.dhcp_state # dhcp.dhcp_state \/ (pkt.plen > 0 /\ r.tx # <<>>)
                       THEN 0
                       ELSE IF expired THEN expiries + 1 ELSE expiries
        /\ UNCHANGED <<linkup, aux>>

\* a call that keeps the transaction id within the window
Record(op, pkt, r) ==
    /\ InWindow(r.dhcp.dhcp_tid) \/ r.dhcp.dhcp_tid = dhcp.dhcp_tid
    /\ RecordCall(op, pkt, r)

ScenarioStep(op, pkt) ==
    IF op = "initial" /\ linkup /\ scenario = 1 /\ pkt.plen = 0 THEN 2
    ELSE IF op = "initial" /\ linkup /\ scenario = 2 /\ pkt = ScenarioOffer THEN 3
    ELSE IF op = "initial" /\ linkup /\ scenario = 3 /\ pkt = ScenarioAck THEN 4
    ELSE 0

(***************************************************************************)
(* Actions                                                                 *)
(***************************************************************************)
InitDhcp ==
    \E initial_tid \in Seeds :
        /\ dhcp' = init_dhcp(dhcp, initial_tid)
        /\ call' = [NoCall EXCEPT !.op = "init_dhcp", !.from = dhcp.dhcp_state,
                                  !.match = (dhcp.dhcp_tid = initial_tid)]
        /\ expiries' = 0
        /\ scenario' = IF initial_tid = 7 THEN 1 ELSE 0
        /\ UNCHANGED <<broadcast, linkup, aux>>

\* the timer interrupt: one tick, or, above TickHorizon, the ticks down to it
Tick ==
    /\ \/ /\ ~U32Lt(U32(TickHorizon), dhcp.dhcp_cnt_down) \/ dhcp.dhcp_cnt_down = U32_MAX
          /\ dhcp' = [dhcp EXCEPT !.dhcp_cnt_down = dhcp_tick(@)]
       \/ /\ U32Lt(U32(TickHorizon), dhcp.dhcp_cnt_down) /\ dhcp.dhcp_cnt_down # U32_MAX
          /\ dhcp' = [dhcp EXCEPT !.dhcp_cnt_down = U32(TickHorizon)]
    /\ scenario' = 0
    /\ UNCHANGED <<broadcast, linkup, call, expiries, aux>>

InitialIpAssignment ==
    \E pkt \in {NoPacket} \cup Packets(dhcp.dhcp_tid) :
        /\ Record("initial", pkt,
                  packetloop_dhcp_initial_ip_assignment(dhcp, broadcast, linkup, pkt))
        /\ scenario' = ScenarioStep("initial", pkt)

RenewHandler ==
    \E pkt \in {NoPacket} \cup Packets(dhcp.dhcp_tid) :
        /\ Record("renew", pkt, packetloop_dhcp_renewhandler(dhcp, broadcast, linkup, pkt))
        /\ scenario' = 0

LinkChange ==
    /\ linkup' = ~linkup
    /\ scenario' = 0
    /\ UNCHANGED <<dhcp, broadcast, call, expiries, aux>>

Next == InitDhcp \/ Tick \/ InitialIpAssignment \/ RenewHandler \/ LinkChange

Spec == Init /\ [][Next]_vars

(***************************************************************************)
(* Acquisition with no server answering: the link is up, init_dhcp has     *)
(* been called once, and the loop hands the entry points either nothing or *)
(* a frame that is not a reply to the outstanding message.  The transaction*)
(* id runs through all its values.  The timer interrupt fires every second *)
(* and the loop never ends, so a tick is always taken eventually and a     *)
(* pass with no frame waiting is always made eventually.                   *)
(***************************************************************************)
Uncorrelated(t) == Mismatched(t) \cup Short(t) \cup Foreign(t)

SilentStart == call.op = "none" /\ InitDhcp

SilentIdle ==
    /\ RecordCall("initial", NoPacket,
                  packetloop_dhcp_initial_ip_assignment(dhcp, broadcast, linkup, NoPacket))
    /\ scenario' = 0

SilentFrame ==
    \E pkt \in Uncorrelated(dhcp.dhcp_tid) :
        /\ RecordCall("initial", pkt,
                      packetloop_dhcp_initial_ip_assignment(dhcp, broadcast, linkup, pkt))
        /\ scenario' = 0

SilentRenew ==
    \E pkt \in {NoPacket} \cup Uncorrelated(dhcp.dhcp_tid) :
        /\ RecordCall("renew", pkt, packetloop_dhcp_renewhandler(dhcp, broadcast, linkup, pkt))
        /\ scenario' = 0

InitSilent == Init /\ linkup

NextSilent == SilentStart \/ SilentIdle \/ SilentFrame \/ SilentRenew \/ Tick

SpecSilent ==
    /\ InitSilent /\ [][NextSilent]_vars
    /\ WF_vars(SilentStart) /\ WF_vars(Tick) /\ WF_vars(SilentIdle)

(***************************************************************************)
(* The timer interrupt against the poll loop's zero test.  dhcp_cnt_down   *)
(* is a plain uint32_t that the interrupt routine decrements and the poll  *)
(* loop reads with interrupts enabled; on the 8-bit target the read is     *)
(* four byte loads, in an order the compiler chooses, and the interrupt    *)
(* may run between any two of them.  The interrupt routine itself runs to  *)
(* completion.                                                             *)
(***************************************************************************)
\* timer interrupts followed in one run of the read
MaxRaceTicks == 3

\* countdown values at which the read begins
RaceCountdowns ==
    {<<0, 0, 0, 1>>, <<0, 0, 0, 2>>, <<0, 0, 1, 0>>, <<0, 0, 1, 1>>,
     <<0, 1, 0, 0>>, <<1, 0, 0, 0>>}

InitRace ==
    /\ orch = NoMain
    /\ dhcp \in {[Statics EXCEPT !.dhcp_state = st, !.dhcp_retry = 4, !.dhcp_cnt_down = c] :
                    st \in {ST_SELECTING, ST_BOUND}, c \in RaceCountdowns}
    /\ rd = NoRead
    /\ ntp = NoNtp
    /\ broadcast = FALSE
    /\ linkup = TRUE
    /\ call = NoCall
    /\ expiries = 0
    /\ scenario = 0

\* is_dhcp_cnt_down_zero() is entered
RaceBegin ==
    /\ rd.pc = "idle"
    /\ rd' = [rd EXCEPT !.pc = "reading", !.held = {dhcp.dhcp_cnt_down}]
    /\ UNCHANGED <<dhcp, broadcast, linkup, call, expiries, scenario, orch, ntp>>

\* one byte of the countdown is loaded
RaceReadByte ==
    /\ rd.pc = "reading"
    /\ \E i \in 1..4 :
          /\ rd.got[i] = -1
          /\ rd' = [rd EXCEPT !.got[i] = dhcp.dhcp_cnt_down[i]]
    /\ UNCHANGED <<dhcp, broadcast, linkup, call, expiries, scenario, orch, ntp>>

\* the timer interrupt, at any point of the read
RaceTick ==
    /\ rd.ticks < MaxRaceTicks
    /\ dhcp' = [dhcp EXCEPT !.dhcp_cnt_down = dhcp_tick(@)]
    /\ rd' = [rd EXCEPT !.ticks = @ + 1,
                        !.held = IF rd.pc = "reading"
                                 THEN @ \cup {dhcp_tick(dhcp.dhcp_cnt_down)} ELSE @]
    /\ UNCHANGED <<broadcast, linkup, call, expiries, scenario, orch, ntp>>

\* the four bytes are compared with zero and the test returns
RaceEnd ==
    /\ rd.pc = "reading"
    /\ \A i \in 1..4 : rd.got[i] # -1
    /\ rd' = [rd EXCEPT !.pc = "done", !.result = (rd.got = U32_ZERO)]
    /\ UNCHANGED <<dhcp, broadcast, linkup, call, expiries, scenario, orch, ntp>>

NextRace == RaceBegin \/ RaceReadByte \/ RaceTick \/ RaceEnd

SpecRace == InitRace /\ [][NextRace]_vars

(***************************************************************************)
(* The bring-up sequence of main().  init_state: -1 before the first link  *)
(* up, 0 link up, 1 initial IP assignment, 2 resolve arps, 3 dns lookup,   *)
(* 4 ready for ntp req, 5 running.                                         *)
(***************************************************************************)
TRANS_NUM_NTPMAC == 1
TRANS_NUM_DNSMAC == 2

\* ++arp_retry_count == 15, ++dns_retry_count == 6, ntp_retry_count < 6
ArpRetryLimit == 15
DnsRetryLimit == 6
NtpRetryLimit == 6

\* delay_sec as loaded after an ARP request, a DNS request, an NTP request
ArpRetryDelay == 2
DnsRetryDelay == 5
NtpRetryDelay == 5

Event(o, e) == [o EXCEPT !.ev = @ \cup {e}]

\* the address resolver's request: the tag is outstanding until its callback
get_mac_with_arp(o, ip, reference_number) ==
    [o EXCEPT !.pending = @ \cup {reference_number},
              !.reqs = IF Len(@) < 3
                       THEN Append(@, [ip |-> ip, reference_number |-> reference_number])
                       ELSE @,
              !.late = @ \/ reference_number \in o.pending]

\* whether a peer is reached through the gateway
route_via_gw(o, ip) == ip \in o.outside

arpresolver(o) ==
    IF ~o.have_dns_mac
    THEN [o |-> get_mac_with_arp(o, IF route_via_gw(o, "mydns") THEN "gwip" ELSE "mydns",
                                 TRANS_NUM_DNSMAC),
          ret |-> 1]
    ELSE IF ~o.have_ntp_mac
    THEN [o |-> get_mac_with_arp(o, IF route_via_gw(o, "ntpip") THEN "gwip" ELSE "ntpip",
                                 TRANS_NUM_NTPMAC),
          ret |-> 1]
    ELSE [o |-> o, ret |-> 0]

arpresolver_result_callback_AnyTag(o, reference_number, mac) ==
    [o EXCEPT !.delay_sec = 0, !.have_ntp_mac = TRUE, !.have_dns_mac = TRUE,
              !.ntproutingmac = mac, !.dnsroutingmac = mac]

arpresolver_result_callback(o, reference_number, mac) ==
    LET o1 == IF reference_number = TRANS_NUM_NTPMAC
              THEN [o EXCEPT !.ntproutingmac = mac, !.delay_sec = 0, !.have_ntp_mac = TRUE]
              ELSE o
    IN  IF reference_number = TRANS_NUM_DNSMAC
        THEN [o1 EXCEPT !.dnsroutingmac = mac, !.delay_sec = 0, !.have_dns_mac = TRUE]
        ELSE o1

\* the station a resolution request with this tag was sent for; its reply
\* carries that station's link-layer address
ArpTarget(o, reference_number) ==
    IF reference_number = TRANS_NUM_DNSMAC
    THEN IF route_via_gw(o, "mydns") THEN "gwip" ELSE "mydns"
    ELSE IF route_via_gw(o, "ntpip") THEN "gwip" ELSE "ntpip"

\* dnslkup_request(buf, ntphostname, mac) and
\* client_ntp_request(buf, ntpip, ntpclientportL, mac): the request leaves for
\* the station whose link-layer address mac holds
dnslkup_request(o, mac) == Event(o, "DNS request to " \o mac)
client_ntp_request(o, mac) == Event(o, "NTP request to " \o mac)

udp_client_check_for_ntp_answer(o) == [o EXCEPT !.haveNTPanswer = 1, !.ntp_retry_count = 0]

\* packetloop_dhcp_initial_ip_assignment returned non-zero with init_state 1
LeaseAcquired(o, e) ==
    [o EXCEPT !.init_state = 2, !.conf = dhcp_get_my_ip(e), !.reqs = <<>>, !.late = FALSE,
              !.clean = (o.pending = {} /\ ~o.have_dns_mac /\ ~o.have_ntp_mac)]

\* the idle part of the loop, block by block; s holds the orchestrator's
\* variables (o) and the client's statics (e)
LinkCheck(s, link) ==
    IF link # s.o.link_status
    THEN IF link
         THEN [s EXCEPT !.o = Event([@ EXCEPT !.link_status = TRUE, !.init_state = 0,
                                              !.delay_sec = 0], "link up")]
         ELSE [s EXCEPT !.o = Event([@ EXCEPT !.link_status = FALSE], "link down")]
    ELSE s

RequestInitialIp_KeepFlags(s, mymac5) ==
    IF s.o.init_state = 0 /\ s.o.delay_sec = 0
    THEN [o |-> Event([s.o EXCEPT !.init_state = 1], "DHCP request"),
          e |-> init_dhcp(s.e, mymac5)]
    ELSE s

RequestInitialIp(s, mymac5) ==
    IF s.o.init_state = 0 /\ s.o.delay_sec = 0
    THEN [o |-> Event([s.o EXCEPT !.init_state = 1, !.have_ntp_mac = FALSE,
                                  !.have_dns_mac = FALSE], "DHCP request"),
          e |-> init_dhcp(s.e, mymac5)]
    ELSE s

ResolveArps(s) ==
    IF s.o.init_state = 2 /\ s.o.delay_sec = 0
    THEN LET a == IF ~s.o.have_dns_mac \/ ~s.o.have_ntp_mac
                  THEN arpresolver(s.o) ELSE [o |-> s.o, ret |-> 0]
             c == (a.o.arp_retry_count + 1) % 256
             o1 == IF a.ret = 0 THEN a.o
                   ELSE IF c = ArpRetryLimit
                   THEN Event([a.o EXCEPT !.arp_retry_count = 0, !.init_state = 0,
                                          !.delay_sec = 0], "ARP retries exhausted")
                   ELSE [a.o EXCEPT !.arp_retry_count = c, !.delay_sec = ArpRetryDelay]
         IN  IF o1.have_dns_mac /\ o1.have_ntp_mac
             THEN [s EXCEPT !.o = [o1 EXCEPT !.init_state = 3, !.delay_sec = 0,
                                             !.dns_state = 0]]
             ELSE [s EXCEPT !.o = o1]
    ELSE s

DnsLookup_NoGiveUp(s) ==
    IF s.o.init_state = 3
    THEN LET o1 == IF s.o.dns_state = 0
                   THEN dnslkup_request([s.o EXCEPT !.delay_sec = DnsRetryDelay,
                                                    !.dns_state = 1, !.dns_answer = FALSE],
                                        s.o.ntproutingmac)
                   ELSE s.o
             o2 == IF o1.dns_state = 1 /\ o1.dns_answer
                   THEN [o1 EXCEPT !.dns_state = 2, !.init_state = 4] ELSE o1
         IN  IF o2.dns_state # 2 /\ o2.delay_sec = 0
             THEN [s EXCEPT !.o = [o2 EXCEPT !.dns_state = 0]]
             ELSE [s EXCEPT !.o = o2]
    ELSE s

DnsLookup(s) ==
    IF s.o.init_state = 3
    THEN LET o1 == IF s.o.dns_state = 0
                   THEN dnslkup_request([s.o EXCEPT !.delay_sec = DnsRetryDelay,
                                                    !.dns_state = 1, !.dns_answer = FALSE],
                                        s.o.ntproutingmac)
                   ELSE s.o
             o2 == IF o1.dns_state = 1 /\ o1.dns_answer
                   THEN [o1 EXCEPT !.dns_state = 2, !.init_state = 4] ELSE o1
             c == (o2.dns_retry_count + 1) % 256
         IN  IF o2.dns_state # 2 /\ o2.delay_sec = 0
             THEN IF c = DnsRetryLimit
                  THEN [s EXCEPT !.o = Event([o2 EXCEPT !.dns_state = 0, !.dns_retry_count = 0,
                                                        !.init_state = 0, !.delay_sec = 0],
                                             "DNS retries exhausted")]
                  ELSE [s EXCEPT !.o = [o2 EXCEPT !.dns_state = 0, !.dns_retry_count = c]]
             ELSE [s EXCEPT !.o = o2]
    ELSE s

ReadyForNtp(s) ==
    IF s.o.init_state = 4
    THEN [s EXCEPT !.o = [@ EXCEPT !.delay_sec = 0, !.haveNTPanswer = 0, !.init_state = 5]]
    ELSE s

Running_OnlyFirstSync(s) ==
    IF s.o.init_state = 5 /\ s.o.haveNTPanswer = 0 /\ s.o.delay_sec = 0 /\ s.o.link_status
    THEN IF s.o.ntp_retry_count < NtpRetryLimit
         THEN [s EXCEPT !.o = client_ntp_request([@ EXCEPT !.delay_sec = NtpRetryDelay,
                                                           !.ntp_retry_count = @ + 1],
                                                 s.o.ntproutingmac)]
         ELSE [s EXCEPT !.o = Event([@ EXCEPT !.ntp_retry_count = 0, !.init_state = 0,
                                              !.delay_sec = 0],
                                    "NTP retries exhausted, never synced")]
    ELSE s

Running(s) ==
    IF s.o.init_state = 5 /\ s.o.haveNTPanswer # 1 /\ s.o.delay_sec = 0 /\ s.o.link_status
    THEN IF s.o.ntp_retry_count < NtpRetryLimit
         THEN [s EXCEPT !.o = client_ntp_request([@ EXCEPT !.delay_sec = NtpRetryDelay,
                                                           !.ntp_retry_count = @ + 1],
                                                 s.o.ntproutingmac)]
         ELSE [s EXCEPT !.o = Event([@ EXCEPT !.ntp_retry_count = 0, !.init_state = 0,
                                              !.delay_sec = 0],
                                    IF s.o.haveNTPanswer = 0
                                    THEN "NTP retries exhausted, never synced"
                                    ELSE "NTP retries exhausted, resync")]
    ELSE s

\* a frame that is none of the client's: an ARP reply, a DNS or NTP answer,
\* an HTTP request
OtherFrame == Frame(UDP_DATA_P, 0, 0, <<0, 0, 0, 0>>, <<0, 0, 0, 0>>, <<>>)

\* The pass is composed stage by stage; each stage's result is bound (as the
\* one element of a set) before the next stage uses it.

\* the idle part of the loop: no frame was received
MainIdle(s, link, mymac5) ==
    CHOOSE s6 \in {Running(s5) : s5 \in {ReadyForNtp(s4) : s4 \in {DnsLookup(s3) :
                 s3 \in {ResolveArps(s2) : s2 \in {RequestInitialIp(s1, mymac5) :
                 s1 \in {LinkCheck(s, link)}}}}}} : TRUE

\* a frame that is not the client's was received: packetloop_arp_icmp_tcp and
\* the udp_client_check_for_..._answer calls, or the POST branch
MainReceived(o, rx) ==
    IF rx.kind = "arp"
    THEN arpresolver_result_callback([o EXCEPT !.pending = @ \ {rx.tag}], rx.tag,
                                     ArpTarget(o, rx.tag))
    ELSE IF rx.kind = "dns" THEN [o EXCEPT !.dns_answer = TRUE]
    ELSE IF rx.kind = "ntp" THEN udp_client_check_for_ntp_answer(o)
    ELSE IF rx.kind = "post"
    THEN Event([o EXCEPT !.init_state = 0, !.delay_sec = 0, !.disturbed = @ + 1],
               "reconfigured")
    ELSE o

\* the end of the pass; the record of the resolution is kept while init_state is 2
MainEnd(s, bc) ==
    [o |-> IF s.o.init_state = 2 THEN s.o
           ELSE [s.o EXCEPT !.reqs = <<>>, !.late = FALSE, !.clean = FALSE],
     dhcp |-> s.e, broadcast |-> bc]

\* after packetloop_dhcp_renewhandler; b is its result
MainDispatch(o, b, link, rx, mymac5) ==
    CHOOSE r \in {MainEnd(s, b.broadcast) :
                     s \in {IF rx.kind = "none"
                            THEN MainIdle([o |-> o, e |-> b.dhcp], link, mymac5)
                            ELSE [o |-> MainReceived(o, rx), e |-> b.dhcp]}} : TRUE

\* buf holds a message the client built in this pass, and the handlers that
\* follow are given it with the length of the frame that was received: the
\* renew handler with plen, packetloop_arp_icmp_tcp with what the renew
\* handler returned
PassedOn(o, a, b, rx) ==
    IF a.tx # <<>> /\ rx.pkt.plen > 0
    THEN [o EXCEPT !.ev = @ \cup {"built message passed to packetloop_dhcp_renewhandler"}
                            \cup (IF b.ret > 0
                                  THEN {"built message passed to packetloop_arp_icmp_tcp"}
                                  ELSE {})]
    ELSE o

\* after packetloop_dhcp_initial_ip_assignment; a is its result.  The client
\* builds a message only in calls that leave dhcp_state below 3, where the
\* renew handler returns before it looks at buf.
MainRenew(o, a, link, rx, mymac5) ==
    CHOOSE r \in {MainDispatch(PassedOn(IF o.init_state = 1 /\ a.ret # 0
                                        THEN LeaseAcquired(o, a.dhcp) ELSE o, a, b, rx),
                               b, link, rx, mymac5) :
                     b \in {packetloop_dhcp_renewhandler(a.dhcp, a.broadcast, link, rx.pkt)}} :
        TRUE

\* one pass of while(1).  rx is what enc28j60PacketReceive returned: kind
\* "none" (plen 0), "dhcp", "arp" (a reply for the outstanding tag rx.tag),
\* "dns", "ntp" or "post" (a configuration POST that was accepted)
main(o, e, bc, link, rx, mymac5) ==
    CHOOSE r \in {MainRenew([o EXCEPT !.ev = {}], a, link, rx, mymac5) :
                     a \in {IF o.init_state = 1
                            THEN packetloop_dhcp_initial_ip_assignment(e, bc, link, rx.pkt)
                            ELSE Out(e, bc, <<>>, 0)}} : TRUE

\* the acknowledgment the server sends for the outstanding transaction
MainAck(t) == Reply(Xid(t), IP_A, OptsFull(5, U32(3600)))

\* what the network may deliver to the loop while the link is up: the server's acknowledgment
\* while the client has a message outstanding, a configuration POST, the
\* reply to an outstanding resolution request, the answer to an outstanding
\* DNS or NTP request
Received ==
    {[kind |-> "none", pkt |-> NoPacket, tag |-> 0]}
    \cup (IF linkup /\ dhcp.dhcp_state \in {ST_SELECTING, ST_REQUESTING, ST_REBINDING}
          THEN {[kind |-> "dhcp", pkt |-> MainAck(dhcp.dhcp_tid), tag |-> 0]} ELSE {})
    \cup (IF linkup /\ orch.disturbed < MaxDisturbances
          THEN {[kind |-> "post", pkt |-> OtherFrame, tag |-> 0]} ELSE {})
    \cup (IF linkup
          THEN {[kind |-> "arp", pkt |-> OtherFrame, tag |-> t] : t \in orch.pending} ELSE {})
    \cup (IF linkup /\ orch.init_state = 3 /\ orch.dns_state = 1 /\ ~orch.dns_answer
          THEN {[kind |-> "dns", pkt |-> OtherFrame, tag |-> 0]} ELSE {})
    \cup (IF linkup /\ orch.init_state = 5 /\ orch.haveNTPanswer # 1 /\ orch.ntp_retry_count > 0
          THEN {[kind |-> "ntp", pkt |-> OtherFrame, tag |-> 0]} ELSE {})

InitMain ==
    /\ dhcp = Statics
    /\ broadcast = FALSE
    /\ linkup \in BOOLEAN
    /\ orch \in {[NoMain EXCEPT !.outside = x] : x \in SUBSET Peers}
    /\ call = NoCall
    /\ expiries = 0
    /\ scenario = 0
    /\ rd = NoRead
    /\ ntp = NoNtp

\* one pass of while(1) in which enc28j60PacketReceive returns rx
MainStep(rx, mymac5) ==
    \E r \in {main(orch, dhcp, broadcast, linkup, rx, mymac5)} :
        /\ InWindow(r.dhcp.dhcp_tid) \/ r.dhcp.dhcp_tid = dhcp.dhcp_tid
        /\ orch' = r.o
        /\ dhcp' = r.dhcp
        /\ broadcast' = r.broadcast
        /\ UNCHANGED <<linkup, call, expiries, scenario, rd>>

MainPass(rx) == \E mymac5 \in Seeds : MainStep(rx, mymac5) /\ UNCHANGED ntp

MainLoop == \E rx \in Received : MainPass(rx)

\* a pass in which no frame was waiting
IdlePass == MainPass([kind |-> "none", pkt |-> NoPacket, tag |-> 0])

\* ISR(TIMER1_COMPA_vect) while the lease needs no renewal: a second is taken
\* off delay_sec and off the client's countdown; a countdown above TickHorizon
\* is kept as it was loaded, so that the bring-up sequence is followed within
\* the span of one countdown
MainTick ==
    /\ \/ /\ ~U32Lt(U32(TickHorizon), dhcp.dhcp_cnt_down) \/ dhcp.dhcp_cnt_down = U32_MAX
          /\ dhcp' = [dhcp EXCEPT !.dhcp_cnt_down = dhcp_tick(@)]
          /\ orch' = [orch EXCEPT !.delay_sec = IF @ # 0 THEN @ - 1 ELSE @]
       \/ /\ U32Lt(U32(TickHorizon), dhcp.dhcp_cnt_down) /\ dhcp.dhcp_cnt_down # U32_MAX
          /\ dhcp' = dhcp
          /\ orch' = [orch EXCEPT !.delay_sec = IF @ # 0 THEN @ - 1 ELSE @]
    /\ UNCHANGED <<broadcast, linkup, call, expiries, scenario, rd, ntp>>

\* print_time_to_display() finds the update period elapsed
ResyncDue ==
    /\ orch.init_state = 5 /\ orch.haveNTPanswer = 1
    /\ orch' = [orch EXCEPT !.haveNTPanswer = 2, !.ntp_retry_count = 0]
    /\ UNCHANGED <<dhcp, broadcast, linkup, call, expiries, scenario, rd, ntp>>

\* the cable is plugged or pulled
MainLinkChange ==
    /\ orch.disturbed < MaxDisturbances
    /\ linkup' = ~linkup
    /\ orch' = [orch EXCEPT !.disturbed = @ + 1]
    /\ UNCHANGED <<dhcp, broadcast, call, expiries, scenario, rd, ntp>>

NextMain == MainLoop \/ MainTick \/ ResyncDue \/ MainLinkChange

SpecMain == InitMain /\ [][NextMain]_vars

\* A run with the link up and the configuration left alone.  The timer
\* interrupt fires every second and the loop never ends, so a second always
\* passes eventually and a pass with no frame waiting is always made
\* eventually.
InitSteady ==
    /\ dhcp = Statics
    /\ broadcast = FALSE
    /\ linkup = TRUE
    /\ orch \in {[NoMain EXCEPT !.outside = x, !.disturbed = MaxDisturbances] :
                    x \in SUBSET Peers}
    /\ call = NoCall
    /\ expiries = 0
    /\ scenario = 0
    /\ rd = NoRead
    /\ ntp = NoNtp

NextSteady == MainLoop \/ MainTick \/ ResyncDue

SpecSteady ==
    InitSteady /\ [][NextSteady]_vars /\ WF_vars(MainTick) /\ WF_vars(IdlePass)

(***************************************************************************)
(* The origin port of the time requests.  The block for init_state 4 loads *)
(* ntpclientportL with mymac[5], every request increments it before it is  *)
(* sent, and an answer is accepted when it is addressed to the port of the *)
(* most recent request.  An answer to an earlier request may still arrive. *)
(***************************************************************************)
\* whether an answer addressed to dstport is taken for the request sent from
\* ntpclientportL
client_ntp_process_answer(dstport, ntpclientportL) == dstport = ntpclientportL

\* the pass from o to o2 issued a time request
NtpRequested(o, o2) == o2.ntp_retry_count = o.ntp_retry_count + 1

\* ntpclientportL after the pass from o to o2
NtpPortAfter(o, o2, port, mymac5) ==
    LET p1 == IF o.init_state # 5 /\ o2.init_state = 5 THEN mymac5 ELSE port
    IN  IF NtpRequested(o, o2) THEN (p1 + 1) % 256 ELSE p1

\* a pass of the loop with anything but a time answer; the request a new
\* request supersedes may become the earlier request that is followed
NtpPass ==
    \E rx \in {r \in Received : r.kind # "ntp"}, mymac5 \in Seeds, follow \in BOOLEAN :
        /\ MainStep(rx, mymac5)
        /\ ntp' = IF NtpRequested(orch, orch')
                  THEN [ntpclientportL |-> NtpPortAfter(orch, orch', ntp.ntpclientportL, mymac5),
                        sent |-> TRUE,
                        old |-> IF follow /\ ntp.sent THEN ntp.ntpclientportL ELSE ntp.old,
                        answered |-> "none"]
                  ELSE [ntp EXCEPT !.ntpclientportL =
                                       NtpPortAfter(orch, orch', ntp.ntpclientportL, mymac5)]

\* a time answer arrives while one is awaited: the reply to the most recent
\* request or the reply to the earlier request that is followed
NtpAnswer ==
    \E who \in {"current", "old"}, mymac5 \in Seeds :
        LET dstport == IF who = "current" THEN ntp.ntpclientportL ELSE ntp.old
            taken == client_ntp_process_answer(dstport, ntp.ntpclientportL)
        IN  /\ linkup /\ orch.init_state = 5 /\ orch.haveNTPanswer # 1
            /\ orch.ntp_retry_count > 0
            /\ who = "old" => ntp.old # -1
            /\ MainStep([kind |-> IF taken THEN "ntp" ELSE "other", pkt |-> OtherFrame,
                         tag |-> 0], mymac5)
            /\ ntp' = IF taken THEN [ntp EXCEPT !.answered = who] ELSE ntp

InitNtp ==
    /\ dhcp = Statics
    /\ broadcast = FALSE
    /\ linkup = TRUE
    /\ orch = [NoMain EXCEPT !.disturbed = MaxDisturbances]
    /\ call = NoCall
    /\ expiries = 0
    /\ scenario = 0
    /\ rd = NoRead
    /\ ntp = NoNtp

NextNtp == NtpPass \/ NtpAnswer \/ MainTick

SpecNtp == InitNtp /\ [][NextNtp]_vars

(***************************************************************************)
(* The loop over the whole life of a short lease.  The server offers and   *)
(* acknowledges a lease of ShortLease seconds, whose options it may change *)
(* from the offer to the acknowledgment, and answers a renewal request     *)
(* with an acknowledgment, with a negative acknowledgment or not at all.   *)
(* No other station answers.  The timer interrupt takes a second off the   *)
(* countdown whatever it holds.                                            *)
(***************************************************************************)
ShortLease == 8

GW_B == <<192, 0, 2, 254>>
DNS_B == <<192, 0, 2, 253>>

OptsChanged(type, lease) ==
    Opt(53, <<type>>) \o Opt(54, SID_A) \o Opt(51, lease) \o Opt(1, MASK_B)
        \o Opt(3, GW_B) \o Opt(6, DNS_B) \o <<255>>

\* what the server sends for the outstanding transaction
LeaseReplies(t) ==
    IF dhcp.dhcp_state = ST_SELECTING
    THEN {Reply(Xid(t), IP_A, OptsFull(2, U32(ShortLease)))}
    ELSE IF dhcp.dhcp_state = ST_REQUESTING
    THEN {Reply(Xid(t), IP_A, OptsFull(5, U32(ShortLease))),
          Reply(Xid(t), IP_A, OptsChanged(5, U32(ShortLease)))}
    ELSE IF dhcp.dhcp_state = ST_REBINDING
    THEN {Reply(Xid(t), IP_A, OptsFull(5, U32(ShortLease))),
          Reply(Xid(t), IP_A, OptsChanged(5, U32(ShortLease))), Nak(t)}
    ELSE {}

LeaseReceived ==
    {[kind |-> "none", pkt |-> NoPacket, tag |-> 0]}
        \cup {[kind |-> "dhcp", pkt |-> pkt, tag |-> 0] : pkt \in LeaseReplies(dhcp.dhcp_tid)}

LeasePass == \E rx \in LeaseReceived : MainPass(rx)

\* ISR(TIMER1_COMPA_vect)
LeaseTick ==
    /\ dhcp' = [dhcp EXCEPT !.dhcp_cnt_down = dhcp_tick(@)]
    /\ orch' = [orch EXCEPT !.delay_sec = IF @ # 0 THEN @ - 1 ELSE @]
    /\ UNCHANGED <<broadcast, linkup, call, expiries, scenario, rd, ntp>>

NextLease == LeasePass \/ LeaseTick

InitLease == InitSteady /\ orch.outside = Peers

SpecLease == InitLease /\ [][NextLease]_vars

(***************************************************************************)
(* Properties                                                              *)
(***************************************************************************)
\* the lease: address, mask, gateway, name server, server id, duration
Lease(e) ==
    <<e.dhcp_yiaddr, e.dhcp_opt_mask, e.dhcp_opt_defaultgw, e.dhcp_opt_dns,
      e.dhcp_opt_server_id, e.dhcp_opt_leasetime>>

EntryPointCall == call.op \in {"initial", "renew"}

\* C1: a frame (plen > 0) whose transaction id field is not the outstanding id
\* changes none of the statics (lease state, lease fields, transaction id,
\* retry budget, countdown) and sends nothing, through either entry point and
\* in every state; after such a call the lease state is the one it was called in.
C1_MismatchedIdIgnored ==
    /\ \A pkt \in Packets(dhcp.dhcp_tid) :
          (pkt.plen > 0 /\ pkt.xid # Xid(dhcp.dhcp_tid)) =>
             LET i == packetloop_dhcp_initial_ip_assignment(dhcp, broadcast, linkup, pkt)
                 r == packetloop_dhcp_renewhandler(dhcp, broadcast, linkup, pkt)
             IN  /\ i.dhcp = dhcp /\ i.tx = <<>>
                 /\ r.dhcp = dhcp /\ r.tx = <<>>
    /\ (EntryPointCall /\ call.plen > 0 /\ ~call.match) =>
          /\ call.tx = <<>>
          /\ call.loaded = <<>>
          /\ dhcp.dhcp_state = call.from

\* a full-length frame with a foreign id was handed to the first entry point in
\* REQUESTING, and the state is still REQUESTING
C1_Witness ==
    /\ call.op = "initial" /\ call.plen >= OPT0 + 3 /\ ~call.match
    /\ call.from = ST_REQUESTING
    /\ dhcp.dhcp_state = ST_REQUESTING

\* C2: a frame of non-zero length below OPT0 + 3 is not for the client: the
\* first entry point returns 0, the renew handler returns plen, and neither
\* changes the lease state or a lease field.
C2_ShortFrameNotForMe ==
    /\ \A pkt \in Packets(dhcp.dhcp_tid) :
          (pkt.plen > 0 /\ pkt.plen < OPT0 + 3) =>
             LET i == packetloop_dhcp_initial_ip_assignment(dhcp, broadcast, linkup, pkt)
                 r == packetloop_dhcp_renewhandler(dhcp, broadcast, linkup, pkt)
             IN  /\ i.ret = 0 /\ r.ret = pkt.plen
                 /\ Lease(i.dhcp) = Lease(dhcp) /\ i.dhcp.dhcp_state = dhcp.dhcp_state
                 /\ Lease(r.dhcp) = Lease(dhcp) /\ r.dhcp.dhcp_state = dhcp.dhcp_state
    /\ (EntryPointCall /\ call.plen > 0 /\ call.plen < OPT0 + 3) =>
          /\ call.ret = (IF call.op = "initial" THEN 0 ELSE call.plen)
          /\ call.loaded = <<>>
          /\ dhcp.dhcp_state = call.from

\* the renew handler was handed a short frame while BOUND and returned its length
C2_Witness ==
    /\ call.op = "renew" /\ call.plen = OPT0 + 2 /\ call.ret = OPT0 + 2
    /\ call.from = ST_BOUND
    /\ dhcp.dhcp_state = ST_BOUND

\* C3 (as claimed): a correlated reply whose trailer is malformed causes no
\* change of the lease state, commits no option value into the lease and sends
\* nothing, whatever well-formed options precede the malformed one.  Stated
\* for the states in which a reply is awaited.
C3_MalformedTrailerIgnored ==
    dhcp.dhcp_state # ST_INIT =>
    \A pkt \in Malformed(dhcp.dhcp_tid) :
        LET i == packetloop_dhcp_initial_ip_assignment(dhcp, broadcast, linkup, pkt)
            r == packetloop_dhcp_renewhandler(dhcp, broadcast, linkup, pkt)
        IN  /\ i.dhcp.dhcp_state = dhcp.dhcp_state /\ i.tx = <<>>
            /\ i.dhcp.dhcp_opt_mask = dhcp.dhcp_opt_mask
            /\ r.dhcp.dhcp_state = dhcp.dhcp_state /\ r.tx = <<>>
            /\ r.dhcp.dhcp_opt_mask = dhcp.dhcp_opt_mask

\* C4 (as claimed): the first entry point returns 1 exactly on the call that
\* takes the client from SELECTING or REQUESTING to BOUND, and 0 otherwise.
C4_AcquiredOnlyOnEdgeToBound ==
    call.op = "initial" =>
        (call.ret = 1 <=> (call.from \in {ST_SELECTING, ST_REQUESTING}
                             /\ dhcp.dhcp_state = ST_BOUND))

IsPrefix(p, q) == Len(p) <= Len(q) /\ SubSeq(q, 1, Len(p)) = p

\* C5: acquisition with the link up.  After init_dhcp(7) the state is INIT;
\* the first zero-length poll gives SELECTING and sends one discover with
\* transaction id 7; the offer (id 7, 192.0.2.50, mask 255.255.255.0, lease
\* 3600) gives REQUESTING and sends one request naming the server id and the
\* requested address 192.0.2.50; the acknowledgment (id 7, same options)
\* gives BOUND, dhcp_get_my_ip hands out 192.0.2.50 / 255.255.255.0 and the
\* countdown is 1800.
C5_AcquisitionScenario ==
    /\ scenario = 1 => dhcp.dhcp_state = ST_INIT /\ dhcp.dhcp_tid = 7
    /\ scenario = 2 =>
          /\ dhcp.dhcp_state = ST_SELECTING
          /\ Len(call.tx) = 1
          /\ call.tx[1].xid = <<7, 7, 7, 7>>
          /\ IsPrefix(<<53, 1, 1>>, call.tx[1].opts)
    /\ scenario = 3 =>
          /\ dhcp.dhcp_state = ST_REQUESTING
          /\ Len(call.tx) = 1
          /\ call.tx[1].xid = <<7, 7, 7, 7>>
          /\ IsPrefix(<<53, 1, 3, 54, 4, 192, 0, 2, 2, 50, 4, 192, 0, 2, 50>>, call.tx[1].opts)
    /\ scenario = 4 =>
          /\ dhcp.dhcp_state = ST_BOUND
          /\ call.ret = 1
          /\ dhcp_get_my_ip(dhcp).yiaddr = <<192, 0, 2, 50>>
          /\ dhcp_get_my_ip(dhcp).netmask = <<255, 255, 255, 0>>
          /\ dhcp_get_info(dhcp).state = 3
          /\ dhcp.dhcp_cnt_down = <<0, 0, 7, 8>>      \* 7 * 256 + 8 = 1800

\* the acknowledgment of the scenario has been handled
C5_Witness == scenario = 4 /\ call.op = "initial" /\ call.match /\ call.from = ST_REQUESTING

Min(a, b) == IF a <= b THEN a ELSE b

\* C6: back-off.  In SELECTING and in REQUESTING the retry interval after N
\* consecutive unanswered expirations of the countdown is min(4 * 2^N, 32).  The
\* call that handles the N-th expiration loads that interval into the countdown
\* and retransmits, in the same state, as long as the doubled interval does not
\* exceed 32; when it does, the call sends nothing and the state is INIT.
C6_ExponentialBackoff ==
    /\ dhcp.dhcp_state \in {ST_SELECTING, ST_REQUESTING} =>
          dhcp.dhcp_retry = Min(4 * 2^expiries, 32)
    /\ (call.op = "initial" /\ call.nexp > 0) =>
          IF 4 * 2^call.nexp <= 32
          THEN /\ dhcp.dhcp_state = call.from
               /\ call.loaded = U32(Min(4 * 2^call.nexp, 32))
               /\ Len(call.tx) = 1
               /\ call.ret = 0
          ELSE /\ dhcp.dhcp_state = ST_INIT
               /\ call.tx = <<>>
               /\ call.ret = 0

\* in REQUESTING the third expiration loaded 32 seconds and sent the request again
C6_Witness ==
    /\ call.op = "initial" /\ call.from = ST_REQUESTING /\ call.nexp = 3
    /\ dhcp.dhcp_state = ST_REQUESTING
    /\ call.loaded = <<0, 0, 0, 32>>
    /\ Len(call.tx) = 1

\* C7 (as claimed): the third consecutive expiration in SELECTING gives up: the
\* state is INIT and nothing is sent.
C7_GiveUpOnThirdExpiry ==
    (call.op = "initial" /\ call.from = ST_SELECTING /\ call.nexp = 3) =>
        dhcp.dhcp_state = ST_INIT /\ call.tx = <<>>

\* C7 (amended): with the limit 32 the expirations in SELECTING retransmit after
\* 8, 16 and 32 seconds; it is the fourth consecutive expiration, which would
\* bring the interval to 64, that sends nothing and gives INIT.
C7_GiveUpOnFourthExpiry ==
    (call.op = "initial" /\ call.from = ST_SELECTING /\ call.nexp > 0) =>
        CASE call.nexp = 1 -> dhcp.dhcp_state = ST_SELECTING /\ dhcp.dhcp_retry = 8
                              /\ Len(call.tx) = 1
          [] call.nexp = 2 -> dhcp.dhcp_state = ST_SELECTING /\ dhcp.dhcp_retry = 16
                              /\ Len(call.tx) = 1
          [] call.nexp = 3 -> dhcp.dhcp_state = ST_SELECTING /\ dhcp.dhcp_retry = 32
                              /\ Len(call.tx) = 1
          [] call.nexp = 4 -> dhcp.dhcp_state = ST_INIT /\ call.tx = <<>>
          [] OTHER -> FALSE

\* the fourth expiration in SELECTING has been handled
C7_Witness ==
    /\ call.op = "initial" /\ call.from = ST_SELECTING /\ call.nexp = 4
    /\ dhcp.dhcp_state = ST_INIT

\* the 16-bit halves of a 32-bit value
Hi16(x) == x[1] * 256 + x[2]
Lo16(x) == x[3] * 256 + x[4]

\* c is the integer quotient of l by d, for d in 1..8
IsQuotient(c, l, d) ==
    /\ Len(c) = 4
    /\ \E r \in 0..(d - 1), k \in 0..(d - 1) :
          /\ d * Lo16(c) + r = Lo16(l) + 65536 * k
          /\ d * Hi16(c) + k = Hi16(l)

\* C8: a call that enters BOUND leaves the countdown at L / 2 and a call of
\* the renew handler that goes from BOUND to REBINDING leaves it at L / 8,
\* L the lease duration and / integer division.
C8_RenewalScheduling ==
    /\ (EntryPointCall /\ call.from # ST_BOUND /\ dhcp.dhcp_state = ST_BOUND) =>
          IsQuotient(call.loaded, dhcp.dhcp_opt_leasetime, 2)
    /\ (call.op = "renew" /\ call.from = ST_BOUND /\ dhcp.dhcp_state = ST_REBINDING) =>
          IsQuotient(call.loaded, dhcp.dhcp_opt_leasetime, 8)

\* with a lease of 3600 seconds the renew handler went from BOUND to REBINDING
\* and loaded 450 seconds (1 * 256 + 194)
C8_Witness ==
    /\ call.op = "renew" /\ call.from = ST_BOUND /\ dhcp.dhcp_state = ST_REBINDING
    /\ dhcp.dhcp_opt_leasetime = <<0, 0, 14, 16>>
    /\ call.loaded = <<0, 0, 1, 194>>

\* C9 (as claimed): the client stays in REBINDING through the first three
\* expirations of the L / 8 countdown; only the fourth gives INIT.
C9_FourRebindingExpirations ==
    (call.op = "renew" /\ call.from = ST_REBINDING /\ call.nexp \in 1..3) =>
        dhcp.dhcp_state = ST_REBINDING

\* C10 (as claimed): after a zero-length call made with the countdown not
\* zero, a second zero-length call of the same entry point with the countdown
\* not zero sends nothing and changes none of the statics.
C10_SecondPollIdle ==
    (EntryPointCall /\ call.quiet /\ dhcp.dhcp_cnt_down # U32_ZERO) =>
        LET r == IF call.op = "initial"
                 THEN packetloop_dhcp_initial_ip_assignment(dhcp, broadcast, linkup, NoPacket)
                 ELSE packetloop_dhcp_renewhandler(dhcp, broadcast, linkup, NoPacket)
        IN  r.tx = <<>> /\ r.dhcp = dhcp

\* C10 (amended): the same, for two calls made with the link in the same
\* status: the second sends nothing, changes none of the statics and returns 0.
C10_SecondPollIdleSameLink ==
    (EntryPointCall /\ call.quiet /\ call.link = linkup /\ dhcp.dhcp_cnt_down # U32_ZERO) =>
        LET r == IF call.op = "initial"
                 THEN packetloop_dhcp_initial_ip_assignment(dhcp, broadcast, linkup, NoPacket)
                 ELSE packetloop_dhcp_renewhandler(dhcp, broadcast, linkup, NoPacket)
        IN  r.tx = <<>> /\ r.dhcp = dhcp /\ r.ret = 0

\* a zero-length call in SELECTING with the link up and the countdown running
\* sent nothing, and the countdown is still running
C10_Witness ==
    /\ call.op = "initial" /\ call.quiet /\ call.link /\ linkup
    /\ call.from = ST_SELECTING /\ dhcp.dhcp_state = ST_SELECTING
    /\ call.tx = <<>> /\ call.loaded = <<>>
    /\ dhcp.dhcp_cnt_down # U32_ZERO

\* C11 (as claimed): the countdown saturates at 0: no step takes it from 0 to
\* the all-ones value.
C11_CountdownSaturatesAtZero ==
    [][dhcp.dhcp_cnt_down = U32_ZERO => dhcp'.dhcp_cnt_down # U32_MAX]_vars

\* the statics but the countdown
NotCountdown(e) == [f \in (DOMAIN e) \ {"dhcp_cnt_down"} |-> e[f]]

\* C12: the tick changes no static other than the countdown (nor the
\* broadcast switch), and a countdown that is all ones stays all ones.
C12_TickTouchesOnlyCountdown ==
    [][Tick => /\ NotCountdown(dhcp') = NotCountdown(dhcp)
               /\ broadcast' = broadcast
               /\ dhcp.dhcp_cnt_down = U32_MAX => dhcp'.dhcp_cnt_down = U32_MAX]_vars

\* the countdown is all ones in BOUND, where the lease loads at most half of
\* that: ticks have brought it there, and further ticks leave it
C12_Witness ==
    /\ dhcp.dhcp_cnt_down = U32_MAX
    /\ dhcp.dhcp_state = ST_BOUND
    /\ call.op = "renew"

\* C13 (as claimed): the zero test sees a value the countdown held at some
\* moment of the read, and returns true only if the countdown was zero at
\* some moment of the read.
C13_NoTornRead ==
    rd.pc = "done" =>
        /\ rd.got \in rd.held
        /\ rd.result => U32_ZERO \in rd.held

\* the last call abandoned an exchange whose outstanding message carried the
\* id that is outstanding now: a negative acknowledgment in REQUESTING, or
\* init_dhcp with the seed that was outstanding in SELECTING or REQUESTING
Abandoned ==
    \/ /\ call.op = "initial" /\ call.from = ST_REQUESTING /\ call.match
       /\ call.ret = 0 /\ call.tx = <<>> /\ dhcp.dhcp_state = ST_INIT
    \/ /\ call.op = "init_dhcp" /\ call.from \in {ST_SELECTING, ST_REQUESTING}
       /\ call.match

\* C14 (as claimed): after an exchange is abandoned no reply to a message of
\* that exchange takes the client to REQUESTING or BOUND.
C14_StaleReplyRejected ==
    (Abandoned /\ dhcp.dhcp_state = ST_INIT) =>
        \A pkt \in WellFormed(dhcp.dhcp_tid) :
            packetloop_dhcp_initial_ip_assignment(dhcp, broadcast, TRUE, pkt).dhcp.dhcp_state
                \notin {ST_REQUESTING, ST_BOUND}

\* C15 (as claimed): an acknowledgment accepted in REQUESTING leaves in the
\* lease the mask, gateway, name server, server id and duration of its own
\* options, and the countdown at half of its own duration.  Stated for
\* REQUESTING entered on an offer that gave a mask and a duration.
C15_AckOptionsCommitted ==
    (dhcp.dhcp_state = ST_REQUESTING /\ dhcp.dhcp_opt_leasetime \in Leases
        /\ dhcp.dhcp_opt_mask = MASK_A) =>
        \A lease \in Leases :
            LET pkt == Reply(Xid(dhcp.dhcp_tid), IP_A, OptsFull(5, lease))
                r == packetloop_dhcp_initial_ip_assignment(dhcp, broadcast, TRUE, pkt)
            IN  r.ret = 1 =>
                   /\ dhcp_get_my_ip(r.dhcp).netmask = MASK_A
                   /\ dhcp_get_my_ip(r.dhcp).gw = GW_A
                   /\ dhcp_get_my_ip(r.dhcp).dns = DNS_A
                   /\ dhcp_get_info(r.dhcp).server_id = SID_A
                   /\ dhcp_get_info(r.dhcp).leasetime = lease
                   /\ IsQuotient(r.dhcp.dhcp_cnt_down, lease, 2)

\* C16 (as claimed): a correlated reply that is neither an offer nor an
\* acknowledgment, and a correlated offer in BOUND or REBINDING, change no
\* lease field, through either entry point.
C16_LeaseChangesOnlyOnOfferOrAck ==
    dhcp.dhcp_state # ST_INIT =>
    \A pkt \in OtherAddress(dhcp.dhcp_tid) :
        (dhcp_get_message_type(pkt) \notin {2, 5} \/ dhcp.dhcp_state \in {ST_BOUND, ST_REBINDING}) =>
            /\ Lease(packetloop_dhcp_initial_ip_assignment(dhcp, broadcast, linkup, pkt).dhcp)
                  = Lease(dhcp)
            /\ Lease(packetloop_dhcp_renewhandler(dhcp, broadcast, linkup, pkt).dhcp)
                  = Lease(dhcp)

\* C17 (as claimed): a negative acknowledgment in REQUESTING or REBINDING gives
\* INIT in that call, sends nothing, and the rejected address is no longer what
\* dhcp_get_my_ip hands out.
C17_NakDiscardsLease ==
    (dhcp.dhcp_state \in {ST_REQUESTING, ST_REBINDING} /\ dhcp.dhcp_yiaddr # <<0, 0, 0, 0>>) =>
        LET pkt == Nak(dhcp.dhcp_tid)
            r == IF dhcp.dhcp_state = ST_REQUESTING
                 THEN packetloop_dhcp_initial_ip_assignment(dhcp, broadcast, TRUE, pkt)
                 ELSE packetloop_dhcp_renewhandler(dhcp, broadcast, TRUE, pkt)
        IN  /\ r.dhcp.dhcp_state = ST_INIT
            /\ r.tx = <<>>
            /\ dhcp_get_my_ip(r.dhcp).yiaddr # dhcp.dhcp_yiaddr

(***************************************************************************)
(* Properties of the bring-up sequence                                     *)
(***************************************************************************)
\* C18 (as claimed): the iteration that detects the link going down leaves
\* init_state at 0 (or at -1, no link yet) with both have-MAC flags cleared,
\* and no later bring-up state is held while link_status says the link is
\* down.
C18_LinkDownForcesRestart ==
    /\ "link down" \in orch.ev =>
           orch.init_state \in {-1, 0} /\ ~orch.have_dns_mac /\ ~orch.have_ntp_mac
    /\ ~orch.link_status => orch.init_state \in {-1, 0}

Exhausted(o) ==
    o.ev \cap {"ARP retries exhausted", "DNS retries exhausted",
               "NTP retries exhausted, never synced", "NTP retries exhausted, resync"} # {}

\* C19: an iteration in which a retry budget is exhausted ends with init_state
\* 0 and delay_sec 0; from init_state 0 the next idle iteration goes to
\* init_state 1, no iteration goes anywhere else, and the iteration that goes
\* to 1 leaves the client in INIT and both have-MAC flags cleared.
C19_ExhaustionRestartsFromAcquisition ==
    [][/\ Exhausted(orch') => orch'.init_state = 0 /\ orch'.delay_sec = 0
       /\ orch.init_state = 0 =>
              /\ orch'.init_state \in {0, 1}
              /\ \A mymac5 \in Seeds :
                     main(orch, dhcp, broadcast, linkup,
                          [kind |-> "none", pkt |-> NoPacket, tag |-> 0],
                          mymac5).o.init_state = 1
       /\ (orch.init_state = 0 /\ orch'.init_state = 1) =>
              /\ dhcp'.dhcp_state = ST_INIT
              /\ ~orch'.have_dns_mac /\ ~orch'.have_ntp_mac]_vars

\* the resync budget of the running state has just been exhausted
C19_Witness ==
    /\ "NTP retries exhausted, resync" \in orch.ev
    /\ orch.init_state = 0
    /\ orch.have_dns_mac /\ orch.have_ntp_mac

\* C20: init_state goes from 2 to 3 only with both have-MAC flags set by their
\* callbacks; when the lease is BOUND, both peers are outside the subnet, the
\* resolution began with no tag outstanding and no flag set and no request had
\* to be repeated, exactly two requests were issued, both for gwip, one with
\* each tag.
C20_OneRequestPerPeerBeforeAdvancing ==
    [][(orch.init_state = 2 /\ orch'.init_state \in {3, 4, 5}) =>
          /\ orch.have_dns_mac /\ orch.have_ntp_mac
          /\ (dhcp.dhcp_state = ST_BOUND /\ orch.outside = Peers /\ orch.clean /\ ~orch.late) =>
                 /\ orch.pending = {}
                 /\ orch.reqs = <<[ip |-> "gwip", reference_number |-> TRANS_NUM_DNSMAC],
                                  [ip |-> "gwip", reference_number |-> TRANS_NUM_NTPMAC]>>]_vars

\* one request per tag has been issued and answered; the next idle iteration
\* advances
C20_Witness ==
    /\ orch.init_state = 2 /\ orch.delay_sec = 0
    /\ dhcp.dhcp_state = ST_BOUND /\ orch.outside = Peers /\ orch.clean /\ ~orch.late
    /\ orch.have_dns_mac /\ orch.have_ntp_mac
    /\ Len(orch.reqs) = 2

\* C21: with the timer and the idle passes fair, init_state 2 leads to 1 unless
\* it goes on to 3 (both resolutions answered), init_state 3 leads to 1 unless
\* it goes on to 4 (name resolved), and init_state 5 with no time yet leads to
\* 1 unless an answer is accepted.
C21_NoHalfResolvedStall ==
    /\ (orch.init_state = 2) ~> (orch.init_state \in {1, 3})
    /\ (orch.init_state = 3) ~> (orch.init_state \in {1, 4, 5})
    /\ (orch.init_state = 5 /\ orch.haveNTPanswer = 0)
           ~> (orch.init_state = 1 \/ orch.haveNTPanswer = 1)

\* the name resolution has gone unanswered six times
C21_Witness ==
    /\ "DNS retries exhausted" \in orch.ev
    /\ orch.init_state = 0

\* C22: in init_state 5, once the update period was found elapsed
\* (haveNTPanswer 2, no request made yet) a request is eventually made with
\* init_state still 5; while the answer is awaited init_state stays 5 unless
\* the retries are exhausted; and the pass that accepts the answer leaves
\* init_state 5, haveNTPanswer 1 and the retry count 0.
C22_ResyncWithoutLeavingReady ==
    /\ (orch.init_state = 5 /\ orch.haveNTPanswer = 2 /\ orch.ntp_retry_count = 0)
           ~> (orch.init_state = 5 /\ orch.haveNTPanswer = 2 /\ orch.ntp_retry_count = 1)
    /\ [][(orch.init_state = 5 /\ orch.haveNTPanswer = 2) =>
              \/ orch'.init_state = 5
              \/ "NTP retries exhausted, resync" \in orch'.ev]_vars
    /\ [][(orch.init_state = 5 /\ orch.haveNTPanswer = 2 /\ orch'.haveNTPanswer # 2) =>
              \/ orch'.init_state = 5 /\ orch'.haveNTPanswer = 1 /\ orch'.ntp_retry_count = 0
              \/ "NTP retries exhausted, resync" \in orch'.ev]_vars

\* the first request of a resynchronisation has just been made
C22_Witness ==
    /\ orch.init_state = 5 /\ orch.haveNTPanswer = 2
    /\ orch.ntp_retry_count = 1 /\ orch.delay_sec = NtpRetryDelay

(***************************************************************************)
(* The options the loop of dhcp_option_parser hands to its switch, in      *)
(* order: code and value bytes, under the loop's own conditions.           *)
(***************************************************************************)
RECURSIVE WalkedOptions(_, _)
WalkedOptions(pkt, option_idx) ==
    IF ~(option_idx + 2 < pkt.plen) THEN <<>>
    ELSE LET option_len == BufByte(pkt, option_idx + 1) IN
         IF option_len < 1 \/ option_idx + option_len + 1 > pkt.plen THEN <<>>
         ELSE IF BufByte(pkt, option_idx) = 0 THEN <<>>
         ELSE <<[code |-> BufByte(pkt, option_idx),
                 val |-> [i \in 1..option_len |-> BufByte(pkt, option_idx + 1 + i)]]>>
              \o WalkedOptions(pkt, option_idx + 2 + option_len)

\* a transmitted message as the buffer and length the parser would be given
AsReceived(msg) ==
    Frame(UDP_DATA_P + msg.datalen, DHCP_SRV_SRC_PORT, msg.op, msg.xid, <<0, 0, 0, 0>>,
          SubSeq(msg.opts, 1, Min(Len(msg.opts), msg.datalen - DHCP_OPTION_OFFSET)))

\* C23: for every discovery message sent, the parser's walk over the
\* transmitted trailer comes to the message type option and to one parameter
\* request list option whose value is the list that was written, byte for
\* byte; the parser itself keeps the message type and nothing of the list.
C23_DiscoverTrailerRoundTrip ==
    \A k \in 1..Len(call.tx) :
        LET msg == call.tx[k]
            pkt == AsReceived(msg)
            w == WalkedOptions(pkt, OPT0)
            written == SubSeq(param_req_lst_end_of_opt, 3, 2 + param_req_lst_end_of_opt[2])
        IN  msg.opts[3] = DHCP_DISCOVER_V =>
               /\ w = <<[code |-> 53, val |-> <<DHCP_DISCOVER_V>>],
                        [code |-> param_req_lst_end_of_opt[1], val |-> written]>>
               /\ dhcp_option_parser(dhcp, pkt)
                     = [dhcp EXCEPT !.dhcp_opt_message_type = DHCP_DISCOVER_V]

\* a discovery message has just been sent
C23_Witness ==
    /\ call.op = "initial" /\ call.from = ST_INIT
    /\ call.tx = <<send_dhcp_discover(dhcp)>>

\* a frame long enough to hold a message type, from the server port, a reply,
\* with the outstanding transaction id
CorrelatedReply(e, pkt) ==
    /\ pkt.plen >= OPT0 + 3
    /\ pkt.srcport = DHCP_SRV_SRC_PORT
    /\ pkt.op = 2
    /\ pkt.xid = Xid(e.dhcp_tid)

\* C24: whatever the renew handler is called with: a zero length gives 0; a
\* frame that is not consumed (lease state below BOUND, or not a correlated
\* reply) is returned with its length, nothing sent and nothing changed; a
\* correlated reply in BOUND or REBINDING gives 0.
C24_RenewHandlerReturn ==
    \A pkt \in {NoPacket} \cup Packets(dhcp.dhcp_tid) :
        LET r == packetloop_dhcp_renewhandler(dhcp, broadcast, linkup, pkt)
            consumed == dhcp.dhcp_state \in {ST_BOUND, ST_REBINDING} /\ CorrelatedReply(dhcp, pkt)
        IN  /\ pkt.plen = 0 => r.ret = 0
            /\ pkt.plen > 0 /\ ~consumed =>
                   r.ret = pkt.plen /\ r.tx = <<>> /\ r.dhcp = dhcp /\ r.broadcast = broadcast
            /\ consumed => r.ret = 0

\* the renew handler has consumed a correlated reply while rebinding
C24_Witness ==
    /\ call.op = "renew" /\ call.from = ST_REBINDING
    /\ call.match /\ call.plen >= OPT0 + 3 /\ call.ret = 0 /\ call.tx = <<>>

\* C25: while the lease is BOUND with the all-ones lease time, the renewal
\* countdown is never zero, however many ticks have been taken.
C25_AllOnesLeaseNeverExpires ==
    dhcp.dhcp_state = ST_BOUND /\ dhcp.dhcp_opt_leasetime = U32_MAX
        => dhcp.dhcp_cnt_down # U32_ZERO

\* the edges of the lease state machine
LeaseEdges ==
    {<<ST_INIT, ST_SELECTING>>, <<ST_SELECTING, ST_REQUESTING>>, <<ST_REQUESTING, ST_BOUND>>,
     <<ST_BOUND, ST_REBINDING>>, <<ST_REBINDING, ST_BOUND>>}
        \cup {<<from, ST_INIT>> : from \in {ST_SELECTING, ST_REQUESTING, ST_BOUND, ST_REBINDING}}

\* C26: every step that changes the lease state takes one of the edges
\* INIT-SELECTING, SELECTING-REQUESTING, REQUESTING-BOUND, BOUND-REBINDING,
\* REBINDING-BOUND or any state to INIT.
C26_OnlyLeaseEdges ==
    [][dhcp'.dhcp_state # dhcp.dhcp_state
          => <<dhcp.dhcp_state, dhcp'.dhcp_state>> \in LeaseEdges]_vars

(***************************************************************************)
(* The buffer indices the two walks read, under the loops' own conditions. *)
(***************************************************************************)
RECURSIVE MessageTypeReads(_, _)
MessageTypeReads(pkt, option_idx) ==
    IF ~(option_idx + 2 < pkt.plen) THEN {}
    ELSE LET option_len == BufByte(pkt, option_idx + 1) IN
         {option_idx + 1} \cup
         IF option_len < 1 \/ option_idx + option_len + 1 > pkt.plen THEN {}
         ELSE {option_idx} \cup
              IF BufByte(pkt, option_idx) = 53 THEN {option_idx + 2}
              ELSE MessageTypeReads(pkt, option_idx + 2 + option_len)

dhcp_get_message_type_Reads(pkt) ==
    IF pkt.plen < OPT0 + 3 THEN {} ELSE MessageTypeReads(pkt, OPT0)

\* what the case of the switch reads of the option at option_idx
ParseOptionReads(pkt, option_idx, option_len) ==
    LET code == BufByte(pkt, option_idx)
    IN  CASE code \in {1, 3, 51, 54} /\ option_len = 4 -> (option_idx + 2)..(option_idx + 5)
          [] code = 6 -> (option_idx + 2)..(option_idx + 5)
          [] code = 53 -> {option_idx + 2}
          [] OTHER -> {}

RECURSIVE OptionWalkReads(_, _)
OptionWalkReads(pkt, option_idx) ==
    IF ~(option_idx + 2 < pkt.plen) THEN {}
    ELSE LET option_len == BufByte(pkt, option_idx + 1) IN
         {option_idx + 1} \cup
         IF option_len < 1 \/ option_idx + option_len + 1 > pkt.plen THEN {}
         ELSE {option_idx} \cup
              IF BufByte(pkt, option_idx) = 0 THEN {}
              ELSE ParseOptionReads(pkt, option_idx, option_len)
                      \cup OptionWalkReads(pkt, option_idx + 2 + option_len)

dhcp_option_parser_Reads(pkt) ==
    IF pkt.plen < OPT0 + 3 THEN {} ELSE OptionWalkReads(pkt, OPT0)

\* acknowledgments whose declared length ends inside the value of the last
\* option: one byte short of a four-byte mask, one byte short of a four-byte
\* name server, and a name server option of length one that ends the frame
CutShort(t) ==
    {Frame(OPT0 + 8, DHCP_SRV_SRC_PORT, 2, Xid(t), IP_A, Opt(53, <<5>>) \o Opt(1, MASK_A)),
     Frame(OPT0 + 8, DHCP_SRV_SRC_PORT, 2, Xid(t), IP_A, Opt(53, <<5>>) \o Opt(6, DNS_A)),
     Frame(OPT0 + 6, DHCP_SRV_SRC_PORT, 2, Xid(t), IP_A, Opt(53, <<5>>) \o <<6, 1, 9>> \o <<0, 0, 0>>)}

\* C27: whatever frame the two walks are given, every buffer index they
\* read is below the declared length plen.
C27_ReadsBelowPlen ==
    \A pkt \in Packets(dhcp.dhcp_tid) \cup CutShort(dhcp.dhcp_tid) :
        /\ \A idx \in dhcp_get_message_type_Reads(pkt) : idx < pkt.plen
        /\ \A idx \in dhcp_option_parser_Reads(pkt) : idx < pkt.plen

\* C28: broadcast reception is enabled in SELECTING, REQUESTING and REBINDING
\* and disabled in BOUND.
C28_BroadcastFollowsLeaseState ==
    /\ dhcp.dhcp_state \in {ST_SELECTING, ST_REQUESTING, ST_REBINDING} => broadcast
    /\ dhcp.dhcp_state = ST_BOUND => ~broadcast

\* C29: a step changes the transaction id only by init_dhcp or by handling an
\* expiry of the countdown, and then by one modulo 256; every message a call
\* sends carries the id the call leaves in all four bytes of its xid field;
\* and handling an expiry (a discovery retry, a request retry, a renewal
\* attempt), from the current id as from 255, leaves the id one higher modulo
\* 256 and sends under the new id.
C29_TidStepsOnEveryRetry ==
    [][/\ dhcp'.dhcp_tid # dhcp.dhcp_tid =>
              \/ call'.op = "init_dhcp"
              \/ call'.nexp > 0 /\ dhcp'.dhcp_tid = (dhcp.dhcp_tid + 1) % 256
       /\ \A k \in 1..Len(call'.tx) : call'.tx[k].xid = Xid(dhcp'.dhcp_tid)
       /\ \A t \in {dhcp.dhcp_tid, 255} :
              LET e == [dhcp EXCEPT !.dhcp_tid = t]
                  r == IF e.dhcp_state \in {ST_SELECTING, ST_REQUESTING}
                       THEN packetloop_dhcp_initial_ip_assignment(e, broadcast, linkup, NoPacket)
                       ELSE packetloop_dhcp_renewhandler(e, broadcast, linkup, NoPacket)
              IN  linkup /\ e.dhcp_state # ST_INIT /\ e.dhcp_cnt_down = U32_ZERO =>
                      /\ r.dhcp.dhcp_tid = (t + 1) % 256
                      /\ \A k \in 1..Len(r.tx) : r.tx[k].xid = Xid((t + 1) % 256)]_vars

\* a request has been sent again after the countdown expired
C29_Witness ==
    /\ call.op = "initial" /\ call.from = ST_REQUESTING /\ call.nexp > 0
    /\ Len(call.tx) = 1 /\ call.tx[1].xid = Xid(dhcp.dhcp_tid)
    /\ call.tx[1].opts[3] = DHCP_REQUEST_V

\* C30: the loop gives up resolving the peers only on requests of the current
\* attempt that went unanswered: the iteration that gives up finds at least
\* three requests already issued since init_state became 2, one of them for
\* a peer whose earlier request was still unanswered.
C30_ArpBudgetCountsThisAttempt ==
    [][("ARP retries exhausted" \in orch'.ev /\ orch.init_state = 2) =>
          Len(orch.reqs) = 3 /\ orch.late]_vars

\* C31: every entry to init_state 3 begins with the whole budget of six
\* time-outs: no time-out counted before the entry is left in
\* dns_retry_count, whose reaching 6 is what abandons the name resolution.
C31_DnsBudgetCountsThisEntry ==
    [][(orch.init_state # 3 /\ orch'.init_state = 3) => orch'.dns_retry_count = 0]_vars

\* C32: every entry to init_state 5 begins a new budget of six requests: the
\* iteration that enters has counted at most the request it issued itself,
\* and the budget is found exhausted only by an iteration that began in
\* init_state 5.
C32_NtpBudgetCountsThisEpisode ==
    [][/\ (orch.init_state # 5 /\ orch'.init_state = 5) => orch'.ntp_retry_count <= 1
       /\ "NTP retries exhausted, never synced" \in orch'.ev => orch.init_state = 5]_vars

\* C33: every time request is sent from a port other than that of the request
\* before it, and the answer that is accepted is the reply to the most recent
\* request, never the reply to an earlier one.
C33_OnlyCurrentNtpReplyAccepted ==
    [][/\ (NtpRequested(orch, orch') /\ ntp.sent) =>
              ntp'.ntpclientportL # ntp.ntpclientportL
       /\ (orch.haveNTPanswer # 1 /\ orch'.haveNTPanswer = 1) =>
              ntp'.answered = "current"]_vars

\* C34: with no server answering, the link up, ticks and zero-length polls
\* always made eventually, a discover or request is sent again and again.
C34_AcquisitionNeverSilent == []<>(call.op = "initial" /\ call.tx # <<>>)

\* C35: whatever frame packetloop_dhcp_initial_ip_assignment is called with,
\* when it returns 1 it leaves the lease BOUND and the countdown not zero.
C35_AcquiredMeansBoundAndCounting ==
    \A pkt \in Packets(dhcp.dhcp_tid) :
        LET r == packetloop_dhcp_initial_ip_assignment(dhcp, broadcast, linkup, pkt)
        IN  r.ret = 1 => r.dhcp.dhcp_state = ST_BOUND /\ r.dhcp.dhcp_cnt_down # U32_ZERO

\* C37: whatever packetloop_dhcp_renewhandler is called with, when it sends a
\* renewal request it leaves the lease REBINDING and the countdown not zero.
C37_RenewalSentMeansRebinding ==
    \A pkt \in {NoPacket} \cup Packets(dhcp.dhcp_tid) :
        LET r == packetloop_dhcp_renewhandler(dhcp, broadcast, linkup, pkt)
        IN  r.tx # <<>> => r.dhcp.dhcp_state = ST_REBINDING /\ r.dhcp.dhcp_cnt_down # U32_ZERO

\* C36: while init_state is 2, 3, 4 or 5 the lease is BOUND or REBINDING.
C36_PastAcquisitionMeansLeaseHeld ==
    orch.init_state \in {2, 3, 4, 5} => dhcp.dhcp_state \in {ST_BOUND, ST_REBINDING}

\* C38: a name-resolution request leaves for the station that answered the
\* resolution request tagged TRANS_NUM_DNSMAC (the name server if it is on
\* the local subnet, the gateway if not), and a time request for the station
\* that answered the one tagged TRANS_NUM_NTPMAC.
C38_RequestsUseTheirOwnPeersMac ==
    \A mac \in {"none", "gwip", "mydns", "ntpip"} :
        /\ ("DNS request to " \o mac) \in orch.ev => mac = ArpTarget(orch, TRANS_NUM_DNSMAC)
        /\ ("NTP request to " \o mac) \in orch.ev => mac = ArpTarget(orch, TRANS_NUM_NTPMAC)

\* C39: while init_state is 2, 3, 4 or 5, at the end of every pass the active
\* configuration (myip, netmask, gwip, mydns) is what dhcp_get_my_ip returns.
C39_ActiveConfigurationIsTheLease ==
    orch.init_state \in {2, 3, 4, 5} => orch.conf = dhcp_get_my_ip(dhcp)

\* C40: in no pass is buf, once the client has built a message in it, given
\* to the renew handler or to packetloop_arp_icmp_tcp with the length of the
\* frame that was received.
C40_BuiltMessageNotPassedOn ==
    /\ "built message passed to packetloop_dhcp_renewhandler" \notin orch.ev
    /\ "built message passed to packetloop_arp_icmp_tcp" \notin orch.ev
=============================================================================
